---- MODULE Spec2Model ----
(***************************************************************************)
(* A model of the retrieval-and-scoring core of rag_stream:                *)
(*   core/extraction.py        extract_field_value, extract_all_fields     *)
(*   analysis/flow_comparison.py   rag_extraction                          *)
(*   analysis/benchmarking.py  run_benchmark_test                          *)
(*   core/index_persistence.py save_index, load_index, delete_index        *)
(*   core/retrieval.py         retrieve                                    *)
(* The program is single-threaded; each subsystem has its own              *)
(* specification (SpecExtract, SpecBatch, SpecBench, SpecCache,            *)
(* SpecRetrieve) over the shared tuple of variables.                       *)
(***************************************************************************)
EXTENDS Integers, Sequences, FiniteSets, TLC

VARIABLES
    \* extract_field_value (core/extraction.py)
    efv_pc,             \* "idle" | "call" | "returned" | "raised"
    retry_count,        \* the retry_count argument
    attempt,            \* the loop variable of for attempt in range(retry_count)
    efv_log,            \* what this invocation did: calls, errors, sleeps
    efv_ret,            \* the returned triple or the raised exception
    \* extract_all_fields / rag_extraction
    eaf_pc,             \* "idle" | "field" | "extract" | "done"
    eaf_fn,             \* which of the two batch functions runs
    fields,             \* the field list argument
    delay_seconds,      \* the delay_seconds argument
    progress_callback,  \* whether a progress callback was passed
    eaf_i,              \* the loop index i of enumerate(fields)
    results,            \* the results list
    eaf_log,            \* batch-level events: progress, retrieve, generate, sleep
    \* run_benchmark_test (analysis/benchmarking.py)
    bm_pc,              \* "idle" | "loop" | "done"
    num_runs,           \* the num_runs argument
    bm_delay,           \* the delay_seconds argument
    bm_callback,        \* whether a progress callback was passed
    bm_i,               \* the loop variable i of range(num_runs)
    bm_results,         \* the results list
    bm_log,             \* events: progress, extractor calls, sleeps
    \* the index cache directory (core/index_persistence.py)
    indexFile,          \* id -> contents of <id>.faiss
    metaFile,           \* id -> contents of <id>_metadata.json
    savedWith,          \* id -> arguments of the save that wrote the sidecar (history)
    intact,             \* id -> TRUE while the last complete save of id is undisturbed (history)
    cache_ret,          \* the last cache operation and what it returned
    \* retrieve (core/retrieval.py)
    rt_pc,              \* "idle" | "ready" | "done"
    rt_index,           \* the index argument
    rt_chunks,          \* the chunks argument
    rt_query,           \* the embedded query
    top_k,              \* the top_k argument
    rt_search,          \* what index.search returned: the (D[0], I[0]) rows
    rt_ret,             \* the returned result list, or the raised exception
    \* zero_shot_extraction (analysis/flow_comparison.py)
    zs_pc,              \* "idle" | "ready" | "done"
    zs_fields,          \* the fields argument
    zs_calls,           \* how many generation calls were made
    zs_resp,            \* what the generation call did (history)
    zs_ret,             \* the returned (results, metrics) pair, or the raised exception
    \* calc_match (analysis/flow_comparison.py) and
    \* calculate_hallucination_score (analysis/hallucination.py)
    sc_pc,              \* "idle" | "ready" | "done"
    sc_fn,              \* which of the two functions is called
    extracted_value,    \* the extracted string, a sequence of characters
    master_value,       \* the master string
    context_text,       \* the context string
    sc_ret,             \* the returned (classification, score) or score
    \* compare_outputs (analysis/flow_comparison.py)
    cmp_pc,             \* "idle" | "ready" | "done"
    master_output,      \* the master field list
    zero_shot_results,  \* the zero-shot result set, or None
    rag_results,        \* the RAG result set, or None
    document_text,      \* the document text
    comparison,         \* the returned report
    \* chunk_text_sliding_window, token mode (core/chunking.py)
    ch_pc,              \* "idle" | "ready" | "loop" | "done"
    ch_text,            \* the text: whether it is blank, and the tokens it encodes to
    size,               \* the size argument
    overlap,            \* the overlap argument
    tokens,             \* enc.encode(text)
    step,               \* the step of the window
    ch_i,               \* the loop variable i
    ch_chunks,          \* the chunks list
    \* rag_extraction, the context of one field (analysis/flow_comparison.py)
    rg_pc,              \* "idle" | "ready" | "done" | "failed"
    retrieved,          \* what retriever(query) returned
    context_parts,      \* the list context_parts
    rag_context,        \* context_text, as placed in the prompt
    \* extract_field_value_simple (core/extraction.py)
    efs_pc,             \* "idle" | "extract" | "confidence" | "returned" | "raised"
    efs_calls,          \* the generation calls made so far, with how each ended
    efs_value,          \* extracted_value
    efs_ret,            \* the returned triple
    \* chunk_text_recursive, token mode (core/chunking.py)
    rc_pc,              \* "idle" | "ready" | "loop" | "done"
    rc_tokens,          \* enc.encode(text)
    rc_i,               \* the window start i
    rc_chunks,          \* the chunks list
    \* chunk_text_recursive, paragraph mode (core/chunking.py)
    rp_pc,              \* "idle" | "ready" | "loop" | "done"
    rp_text,            \* the text argument
    rp_size,            \* the size argument
    initial_chunks,     \* the initial units
    rp_k,               \* how many units the loop has taken
    current_chunk,      \* the running buffer
    final_chunks,       \* the chunks made so far, and the result
    \* the index building block of the application (app.py)
    session,            \* st.session_state: pdf_text, chunks, index
    app_req             \* the last build request and how it ended

efvVars == <<efv_pc, retry_count, attempt, efv_log, efv_ret>>
eafVars == <<eaf_pc, eaf_fn, fields, delay_seconds, progress_callback, eaf_i, results, eaf_log>>
bmVars == <<bm_pc, num_runs, bm_delay, bm_callback, bm_i, bm_results, bm_log>>
cacheVars == <<indexFile, metaFile, savedWith, intact, cache_ret>>
rtVars == <<rt_pc, rt_index, rt_chunks, rt_query, top_k, rt_search, rt_ret>>
zsVars == <<zs_pc, zs_fields, zs_calls, zs_resp, zs_ret>>
scVars == <<sc_pc, sc_fn, extracted_value, master_value, context_text, sc_ret>>
cmpVars == <<cmp_pc, master_output, zero_shot_results, rag_results, document_text, comparison>>
chVars == <<ch_pc, ch_text, size, overlap, tokens, step, ch_i, ch_chunks>>
rgVars == <<rg_pc, retrieved, context_parts, rag_context>>
efsVars == <<efs_pc, efs_calls, efs_value, efs_ret>>
rcVars == <<rc_pc, rc_tokens, rc_i, rc_chunks>>
rpVars == <<rp_pc, rp_text, rp_size, initial_chunks, rp_k, current_chunk, final_chunks>>
appVars == <<session, app_req>>
vars == <<efvVars, eafVars, bmVars, cacheVars, rtVars, zsVars, scVars, cmpVars, chVars, rgVars,
          efsVars, rcVars, rpVars, appVars>>

(***************************************************************************)
(* Helpers                                                                 *)
(***************************************************************************)
Min(a, b) == IF a <= b THEN a ELSE b
Max(a, b) == IF a >= b THEN a ELSE b
Last(s) == s[Len(s)]

(***************************************************************************)
(* Generation provider: what one generate_content call can do.             *)
(* An error message is modelled by what the code reads of it: whether it   *)
(* contains "429", whether it contains "RESOURCE_EXHAUSTED", and the       *)
(* seconds matched by the "retry in <number>s" pattern (-1: no match).     *)
(***************************************************************************)
NoHint == -1

ErrorMessages ==
    { [text |-> "server error",           has429 |-> FALSE, hasRE |-> FALSE, retry |-> NoHint],
      [text |-> "busy, retry in 30s",     has429 |-> FALSE, hasRE |-> FALSE, retry |-> 30],
      [text |-> "429 too many requests",  has429 |-> TRUE,  hasRE |-> FALSE, retry |-> NoHint],
      [text |-> "429 retry in 30s",       has429 |-> TRUE,  hasRE |-> FALSE, retry |-> 30],
      [text |-> "RESOURCE_EXHAUSTED",     has429 |-> FALSE, hasRE |-> TRUE,  retry |-> NoHint],
      [text |-> "RESOURCE_EXHAUSTED retry in 90s",
                                          has429 |-> FALSE, hasRE |-> TRUE,  retry |-> 90] }

\* str(e) of the ValueError float() raises on a non-numeric confidence
FloatErrorMessage ==
    [text |-> "could not convert string to float", has429 |-> FALSE, hasRE |-> FALSE, retry |-> NoHint]

\* the message of the RuntimeError extract_field_value raises itself
QuotaMessage ==
    [text |-> "Daily quota exceeded", has429 |-> FALSE, hasRE |-> FALSE, retry |-> NoHint]

\* the message of an exception raised by the retriever
RetrieverMessage ==
    [text |-> "retriever failed", has429 |-> FALSE, hasRE |-> FALSE, retry |-> NoHint]

\* a key the dict does not have (dict.get returns its default)
Missing == "<missing>"
NoNumber == -1
\* a "confidence" that float() rejects
NotANumber == -1000

\* A response of the model: JSON with (or without) "value" and "confidence"
\* keys, JSON whose confidence is not a number, or text that is not JSON.
Responses ==
    { [kind |-> "json", value |-> "v",     confidence |-> 85],
      [kind |-> "json", value |-> "v",     confidence |-> 150],
      [kind |-> "json", value |-> Missing, confidence |-> NoNumber],
      [kind |-> "json", value |-> "v",     confidence |-> NotANumber],
      [kind |-> "text", value |-> "raw text", confidence |-> NoNumber] }

\* One generate_content call either returns a response or raises.
Outcomes ==
    { [ok |-> TRUE, resp |-> r, msg |-> QuotaMessage] : r \in Responses }
    \cup { [ok |-> FALSE, resp |-> CHOOSE r \in Responses : r.kind = "text", msg |-> m] :
             m \in ErrorMessages }

(***************************************************************************)
(* extract_field_value                                                     *)
(***************************************************************************)
DEFAULT_RETRY_COUNT == 3
SleepCap == 60

NoRet == [kind |-> "none", value |-> "", confidence |-> 0, reasoning |-> ""]
Returned(v, c, why) == [kind |-> "return", value |-> v, confidence |-> c, reasoning |-> why]
Raised(type, msg) == [kind |-> "raise", value |-> type, confidence |-> 0, reasoning |-> msg.text]

\* lines 60-75: the parse of a response that was returned. A JSON response
\* whose confidence float() rejects raises inside the outer try.
ParseResponse(resp) ==
    IF resp.kind = "text"
    THEN [ok |-> TRUE, ret |-> Returned(resp.value, 50, "Could not parse LLM response")]
    ELSE IF resp.confidence = NotANumber
    THEN [ok |-> FALSE, ret |-> NoRet]
    ELSE [ok |-> TRUE,
          ret |-> Returned(IF resp.value = Missing THEN "N/A" ELSE resp.value,
                           IF resp.confidence = NoNumber THEN 50 ELSE resp.confidence,
                           "reasoning")]

\* line 81
IsRateLimit(msg) == msg.has429 \/ msg.hasRE

\* lines 77-94: the except block of attempt a out of rc, for message msg.
\* next: "continue" (with the sleep that precedes it) or "raise".
HandleError(a, rc, msg) ==
    IF IsRateLimit(msg)
    THEN IF msg.retry # NoHint /\ a < rc - 1
         THEN [next |-> "continue", sleep |-> Min(msg.retry, SleepCap), exc |-> NoRet]
         ELSE [next |-> "raise", sleep |-> NoHint, exc |-> Raised("RuntimeError", QuotaMessage)]
    ELSE IF a < rc - 1
         THEN [next |-> "continue", sleep |-> (a + 1) * 2, exc |-> NoRet]
         ELSE [next |-> "raise", sleep |-> NoHint, exc |-> Raised("Exception", msg)]

Ev(e, n, m) == [ev |-> e, n |-> n, msg |-> m]

\* lines 53-94: one iteration of the retry loop.
EfvAttempt(o) ==
    /\ efv_pc = "call"
    /\ attempt < retry_count
    /\ LET called == Append(efv_log, Ev("call", attempt, ""))
           parsed == ParseResponse(o.resp)
           msg == IF o.ok THEN FloatErrorMessage ELSE o.msg
           h == HandleError(attempt, retry_count, msg)
       IN IF o.ok /\ parsed.ok
          THEN /\ efv_pc' = "returned"
               /\ efv_ret' = parsed.ret
               /\ efv_log' = called
               /\ attempt' = attempt
          ELSE IF h.next = "continue"
          THEN /\ efv_pc' = "call"
               /\ efv_ret' = efv_ret
               /\ efv_log' = called \o <<Ev("error", attempt, msg.text), Ev("sleep", h.sleep, "")>>
               /\ attempt' = attempt + 1
          ELSE /\ efv_pc' = "raised"
               /\ efv_ret' = h.exc
               /\ efv_log' = Append(called, Ev("error", attempt, msg.text))
               /\ attempt' = attempt
    /\ UNCHANGED retry_count

\* line 96: the loop ran out without returning or raising.
EfvExhausted ==
    /\ efv_pc = "call"
    /\ attempt >= retry_count
    /\ efv_pc' = "returned"
    /\ efv_ret' = Returned("N/A", 0, "Extraction failed after retries")
    /\ UNCHANGED <<retry_count, attempt, efv_log>>

EfvIdle ==
    /\ efv_pc = "idle" /\ retry_count = 0 /\ attempt = 0 /\ efv_log = <<>> /\ efv_ret = NoRet

(***************************************************************************)
(* extract_all_fields (core/extraction.py) and rag_extraction              *)
(* (analysis/flow_comparison.py): the same loop over the field list.       *)
(***************************************************************************)
\* the retriever raises, or returns n results
RetrieverOutcomes ==
    { [ok |-> FALSE, n |-> 0], [ok |-> TRUE, n |-> 1], [ok |-> TRUE, n |-> 3] }

\* field.get("field_name", f"Field {i+1}"), i counted from 0
FieldName(field, i) ==
    IF field.field_name = Missing THEN "Field " \o ToString(i + 1) ELSE field.field_name

\* the record appended by the try block
SuccessRecord(name, ret, src, used) ==
    [field_name |-> name, value |-> ret.value, confidence |-> ret.confidence,
     reason |-> ret.reasoning, source |-> src, chunks_used |-> used]

\* a variant that reports a failure as a not-found value
ErrorRecordAsNotFound(name, text, src) ==
    [field_name |-> name, value |-> "N/A", confidence |-> 50,
     reason |-> text, source |-> src, chunks_used |-> 0]

\* the record appended by the except block
ErrorRecord(name, text, src) ==
    [field_name |-> name, value |-> "ERROR", confidence |-> 0,
     reason |-> text, source |-> src, chunks_used |-> 0]

\* a variant whose except block sleeps the plain delay
BatchSleepNotDoubled(i, n, delay, failed) ==
    IF i < n - 1 THEN <<Ev("sleep", delay, "")>> ELSE <<>>

\* if i < len(fields) - 1: time.sleep(...) of the try block (failed = FALSE)
\* and of the except block (failed = TRUE): the events it adds to the log
BatchSleep(i, n, delay, failed) ==
    IF i < n - 1
    THEN <<Ev("sleep", IF failed THEN delay * 2 ELSE delay, "")>>
    ELSE <<>>

\* lines 205-210 of extraction.py, 194-199 of flow_comparison.py
ProgressEvents(i) == IF progress_callback THEN <<Ev("progress", i, "")>> ELSE <<>>

\* the except block: append the ERROR record, sleep the doubled delay
EafFail(logged, text, src) ==
    /\ results' = Append(results, ErrorRecord(FieldName(fields[eaf_i + 1], eaf_i), text, src))
    /\ eaf_log' = logged \o BatchSleep(eaf_i, Len(fields), delay_seconds, TRUE)
    /\ eaf_i' = eaf_i + 1
    /\ eaf_pc' = "field"

\* the end of the try block: append the record, sleep the delay
EafSucceed(logged, ret, src, used) ==
    /\ results' = Append(results, SuccessRecord(FieldName(fields[eaf_i + 1], eaf_i), ret, src, used))
    /\ eaf_log' = logged \o BatchSleep(eaf_i, Len(fields), delay_seconds, FALSE)
    /\ eaf_i' = eaf_i + 1
    /\ eaf_pc' = "field"

\* extract_all_fields, lines 205-220 and 234-244: the progress callback and
\* the retriever call of field i; on success extract_field_value is entered.
EafRetrieve(r) ==
    /\ eaf_fn = "extract_all_fields"
    /\ eaf_pc = "field"
    /\ eaf_i < Len(fields)
    /\ LET logged == eaf_log \o ProgressEvents(eaf_i)
                     \o <<Ev("retrieve", eaf_i, IF r.ok THEN "ok" ELSE "raise")>>
       IN IF r.ok
          THEN /\ eaf_pc' = "extract"
               /\ eaf_log' = Append(logged, Ev("generate", eaf_i, ""))
               /\ efv_pc' = "call"
               /\ retry_count' = DEFAULT_RETRY_COUNT
               /\ attempt' = 0
               /\ efv_log' = <<>>
               /\ efv_ret' = NoRet
               /\ UNCHANGED <<eaf_i, results>>
          ELSE /\ EafFail(logged, RetrieverMessage.text, "")
               /\ UNCHANGED efvVars
    /\ UNCHANGED <<eaf_fn, fields, delay_seconds, progress_callback>>

\* extract_all_fields, lines 218-244: extract_field_value has returned or raised.
EafExtracted ==
    /\ eaf_fn = "extract_all_fields"
    /\ eaf_pc = "extract"
    /\ efv_pc \in {"returned", "raised"}
    /\ IF efv_pc = "returned"
       THEN EafSucceed(Append(eaf_log, Ev("extracted", eaf_i, "ok")), efv_ret, "", 0)
       ELSE EafFail(Append(eaf_log, Ev("extracted", eaf_i, "raise")), efv_ret.reasoning, "")
    /\ efv_pc' = "idle"
    /\ retry_count' = 0
    /\ attempt' = 0
    /\ efv_log' = <<>>
    /\ efv_ret' = NoRet
    /\ UNCHANGED <<eaf_fn, fields, delay_seconds, progress_callback>>

\* rag_extraction, lines 194-278: one iteration of the loop. The single
\* generation call is made directly, without retries.
RagField(r, o) ==
    /\ eaf_fn = "rag_extraction"
    /\ eaf_pc = "field"
    /\ eaf_i < Len(fields)
    /\ LET logged == eaf_log \o ProgressEvents(eaf_i)
                     \o <<Ev("retrieve", eaf_i, IF r.ok THEN "ok" ELSE "raise")>>
           parsed == ParseResponse(o.resp)
           called == Append(logged, Ev("generate", eaf_i, IF o.ok /\ parsed.ok THEN "ok" ELSE "raise"))
       IN IF ~r.ok
          THEN EafFail(logged, RetrieverMessage.text, "rag")
          ELSE IF ~o.ok
          THEN EafFail(called, o.msg.text, "rag")
          ELSE IF ~parsed.ok
          THEN EafFail(called, FloatErrorMessage.text, "rag")
          ELSE EafSucceed(called, parsed.ret, "rag", Min(2, r.n))
    /\ UNCHANGED <<eaf_fn, fields, delay_seconds, progress_callback>>
    /\ UNCHANGED efvVars

\* if not fields: return [] and return results after the loop
EafReturn ==
    /\ eaf_pc = "field"
    /\ eaf_i >= Len(fields)
    /\ eaf_pc' = "done"
    /\ UNCHANGED <<eaf_fn, fields, delay_seconds, progress_callback, eaf_i, results, eaf_log>>
    /\ UNCHANGED efvVars

EafIdle ==
    /\ eaf_pc = "idle" /\ eaf_fn = "" /\ fields = <<>> /\ delay_seconds = 0
    /\ progress_callback = FALSE /\ eaf_i = 0 /\ results = <<>> /\ eaf_log = <<>>

(***************************************************************************)
(* run_benchmark_test (analysis/benchmarking.py)                           *)
(***************************************************************************)
\* extractor(query) returns (value, confidence, chunks) after ms milliseconds,
\* or raises. An extractor may also report a failure as a value.
ExtractorOutcomes ==
    { [ok |-> TRUE,  value |-> "v",     confidence |-> 85, chunks |-> 2, ms |-> 120],
      [ok |-> TRUE,  value |-> "w",     confidence |-> 40, chunks |-> 0, ms |-> 0],
      [ok |-> TRUE,  value |-> "ERROR", confidence |-> 0,  chunks |-> 0, ms |-> 120],
      [ok |-> FALSE, value |-> "",      confidence |-> 0,  chunks |-> 0, ms |-> 120] }

\* lines 47-53
RunRecord(i, o) ==
    [run |-> i + 1, value |-> o.value, confidence |-> o.confidence,
     time_ms |-> o.ms, num_chunks |-> o.chunks, error |-> FALSE]

\* a variant that keeps a measured time in the record of a failed run
RunErrorRecordTimed(i) ==
    [run |-> i + 1, value |-> "ERROR", confidence |-> 0,
     time_ms |-> 120, num_chunks |-> 0, error |-> TRUE]

\* lines 62-69
RunErrorRecord(i) ==
    [run |-> i + 1, value |-> "ERROR", confidence |-> 0,
     time_ms |-> 0, num_chunks |-> 0, error |-> TRUE]

\* a variant that also sleeps after the last run
RunSleepAfterLast(i, n, delay, failed, callback) ==
    (IF callback /\ ~failed THEN <<Ev("progress", i, "waiting")>> ELSE <<>>)
    \o <<Ev("sleep", IF failed THEN delay * 2 ELSE delay, "")>>

\* lines 56-59 (failed = FALSE) and 71-72 (failed = TRUE): the events after the append
RunSleep(i, n, delay, failed, callback) ==
    IF i < n - 1
    THEN (IF callback /\ ~failed THEN <<Ev("progress", i, "waiting")>> ELSE <<>>)
         \o <<Ev("sleep", IF failed THEN delay * 2 ELSE delay, "")>>
    ELSE <<>>

\* lines 37-72: one iteration of the loop
BmRun(o) ==
    /\ bm_pc = "loop"
    /\ bm_i < num_runs
    /\ LET logged == bm_log
                     \o (IF bm_callback THEN <<Ev("progress", bm_i, "running")>> ELSE <<>>)
                     \o <<Ev("call", bm_i, IF o.ok THEN "ok" ELSE "raise")>>
       IN /\ bm_results' = Append(bm_results, IF o.ok THEN RunRecord(bm_i, o) ELSE RunErrorRecord(bm_i))
          /\ bm_log' = logged \o RunSleep(bm_i, num_runs, bm_delay, ~o.ok, bm_callback)
    /\ bm_i' = bm_i + 1
    /\ UNCHANGED <<bm_pc, num_runs, bm_delay, bm_callback>>

\* lines 37-72 when a progress callback or a sleep raises. fault:
\*   "running": the callback of line 39, before the try: the exception leaves
\*              the function
\*   "waiting": the callback of line 58, after the record of a run that
\*              succeeded was appended: the except block appends a record too
\*   "sleep":   the sleep of line 59, likewise; the sleep of line 72 returns
\*   "sleeps":  the sleep of line 59 and then that of line 72, inside the
\*              except block: the exception leaves the function
BmRunFaulty(o, fault) ==
    /\ bm_pc = "loop"
    /\ bm_i < num_runs
    /\ fault \in {"running", "waiting", "sleep", "sleeps"}
    /\ fault \in {"running", "waiting"} => bm_callback
    /\ fault \in {"waiting", "sleep", "sleeps"} => (o.ok /\ bm_i < num_runs - 1)
    /\ LET logged == bm_log
                     \o (IF bm_callback THEN <<Ev("progress", bm_i, "running")>> ELSE <<>>)
           called == logged \o <<Ev("call", bm_i, "ok")>>
                     \o (IF bm_callback THEN <<Ev("progress", bm_i, "waiting")>> ELSE <<>>)
       IN IF fault = "running"
          THEN /\ bm_pc' = "raised"
               /\ bm_log' = logged
               /\ UNCHANGED <<bm_i, bm_results>>
          ELSE /\ bm_results' = bm_results \o <<RunRecord(bm_i, o), RunErrorRecord(bm_i)>>
               /\ bm_log' = called
                     \o (IF fault = "waiting" THEN <<>> ELSE <<Ev("sleep", bm_delay, "raise")>>)
                     \o <<Ev("sleep", bm_delay * 2, IF fault = "sleeps" THEN "raise" ELSE "")>>
               /\ bm_pc' = IF fault = "sleeps" THEN "raised" ELSE bm_pc
               /\ bm_i' = IF fault = "sleeps" THEN bm_i ELSE bm_i + 1
    /\ UNCHANGED <<num_runs, bm_delay, bm_callback>>

\* line 74
BmReturn ==
    /\ bm_pc = "loop"
    /\ bm_i >= num_runs
    /\ bm_pc' = "done"
    /\ UNCHANGED <<num_runs, bm_delay, bm_callback, bm_i, bm_results, bm_log>>

BmIdle ==
    /\ bm_pc = "idle" /\ num_runs = 0 /\ bm_delay = 0 /\ bm_callback = FALSE
    /\ bm_i = 0 /\ bm_results = <<>> /\ bm_log = <<>>

(***************************************************************************)
(* JSON, as json.dump writes it and json.load reads it. A document is a    *)
(* sequence of tokens; a string token holds the characters between its     *)
(* quotes, with quote and backslash escaped by a backslash.                *)
(***************************************************************************)
Quote == "\""
Backslash == "\\"

JNum(n) == [ty |-> "num", num |-> n]
JStr(chars) == [ty |-> "str", chars |-> chars]
JList(items) == [ty |-> "list", items |-> items]
JObj(members) == [ty |-> "obj", members |-> members]
Member(k, v) == [key |-> k, val |-> v]

\* a variant that writes the characters of a string as they are
EscapeRaw(chars) == chars

RECURSIVE Escape(_)
Escape(chars) ==
    IF chars = <<>> THEN <<>>
    ELSE IF Head(chars) \in {Quote, Backslash}
         THEN <<Backslash, Head(chars)>> \o Escape(Tail(chars))
         ELSE <<Head(chars)>> \o Escape(Tail(chars))

RECURSIVE Unescape(_)
\* [ok, chars]: fails on a bare quote and on a backslash that escapes nothing
Unescape(enc) ==
    IF enc = <<>> THEN [ok |-> TRUE, chars |-> <<>>]
    ELSE IF Head(enc) = Quote THEN [ok |-> FALSE, chars |-> <<>>]
    ELSE IF Head(enc) = Backslash
         THEN IF Len(enc) < 2 \/ enc[2] \notin {Quote, Backslash}
              THEN [ok |-> FALSE, chars |-> <<>>]
              ELSE LET r == Unescape(SubSeq(enc, 3, Len(enc)))
                   IN [ok |-> r.ok, chars |-> <<enc[2]>> \o r.chars]
         ELSE LET r == Unescape(Tail(enc))
              IN [ok |-> r.ok, chars |-> <<Head(enc)>> \o r.chars]

Tok(t) == [t |-> t]

RECURSIVE JsonDump(_)
JsonDump(v) ==
    LET DumpAll[k \in 0..Len(IF v.ty = "list" THEN v.items ELSE <<>>)] ==
            IF k = 0 THEN <<>> ELSE DumpAll[k - 1] \o JsonDump(v.items[k])
        DumpMembers[k \in 0..Len(IF v.ty = "obj" THEN v.members ELSE <<>>)] ==
            IF k = 0 THEN <<>>
            ELSE DumpMembers[k - 1] \o <<[t |-> "key", key |-> v.members[k].key]>>
                                    \o JsonDump(v.members[k].val)
    IN CASE v.ty = "num" -> <<[t |-> "num", num |-> v.num]>>
         [] v.ty = "str" -> <<[t |-> "str", chars |-> Escape(v.chars)]>>
         [] v.ty = "list" -> <<Tok("[")>> \o DumpAll[Len(v.items)] \o <<Tok("]")>>
         [] v.ty = "obj" -> <<Tok("{")>> \o DumpMembers[Len(v.members)] \o <<Tok("}")>>

ParseFail == [ok |-> FALSE, val |-> JNum(0), next |-> 0]

RECURSIVE ParseValue(_, _), ParseItems(_, _, _), ParseMembers(_, _, _)
\* [ok, val, next]: the value that starts at token p and the position after it
ParseValue(toks, p) ==
    IF p > Len(toks) THEN ParseFail
    ELSE CASE toks[p].t = "num" -> [ok |-> TRUE, val |-> JNum(toks[p].num), next |-> p + 1]
           [] toks[p].t = "str" ->
                LET u == Unescape(toks[p].chars)
                IN IF u.ok THEN [ok |-> TRUE, val |-> JStr(u.chars), next |-> p + 1] ELSE ParseFail
           [] toks[p].t = "[" -> ParseItems(toks, p + 1, <<>>)
           [] toks[p].t = "{" -> ParseMembers(toks, p + 1, <<>>)
           [] OTHER -> ParseFail

ParseItems(toks, p, acc) ==
    IF p > Len(toks) THEN ParseFail
    ELSE IF toks[p].t = "]" THEN [ok |-> TRUE, val |-> JList(acc), next |-> p + 1]
    ELSE LET r == ParseValue(toks, p)
         IN IF r.ok THEN ParseItems(toks, r.next, Append(acc, r.val)) ELSE ParseFail

ParseMembers(toks, p, acc) ==
    IF p > Len(toks) THEN ParseFail
    ELSE IF toks[p].t = "}" THEN [ok |-> TRUE, val |-> JObj(acc), next |-> p + 1]
    ELSE IF toks[p].t # "key" THEN ParseFail
    ELSE LET r == ParseValue(toks, p + 1)
         IN IF r.ok THEN ParseMembers(toks, r.next, Append(acc, Member(toks[p].key, r.val)))
            ELSE ParseFail

\* json.load: the whole text must be one value
JsonLoad(toks) ==
    LET r == ParseValue(toks, 1)
    IN IF r.ok /\ r.next = Len(toks) + 1 THEN r ELSE ParseFail

\* dict.get(key, default) on a parsed object
Get(obj, key, default) ==
    IF \E k \in 1..Len(obj.members) : obj.members[k].key = key
    THEN obj.members[CHOOSE k \in 1..Len(obj.members) : obj.members[k].key = key].val
    ELSE default

(***************************************************************************)
(* The index cache (core/index_persistence.py)                             *)
(***************************************************************************)
\* document texts, as character sequences
DocTexts == { <<"x">>, <<"x", "y">> }

\* a variant that hashes nothing of the text
HashConstant(text) == <<"sha256", <<>>>>

\* lines 16-26: SHA-256 of the text, truncated; no two texts of DocTexts collide
get_document_hash(text) == <<"sha256", text>>

Ids == { get_document_hash(t) : t \in DocTexts }

\* a FAISS index: its dimension and its vectors, in insertion order
Index(vecs) == [d |-> 1, vecs |-> vecs]
ntotal(index) == Len(index.vecs)

Absent == [kind |-> "absent"]
\* a file whose writer was cut short
Truncated == [kind |-> "truncated"]
IndexContents(index) == [kind |-> "index", index |-> index]
TextContents(toks) == [kind |-> "text", toks |-> toks]

Exists(file) == file.kind # "absent"

ChunkValue(chunks) == JList([k \in 1..Len(chunks) |-> JStr(chunks[k])])
ChunksOf(list) == [k \in 1..Len(list.items) |-> list.items[k].chars]

\* lines 90-100: the metadata dict
Metadata(index, chunks, text, filename, config, now) ==
    JObj(<< Member("document_hash", JStr(get_document_hash(text)[2])),
            Member("pdf_filename", JStr(filename)),
            Member("created_at", JStr(now)),
            Member("num_chunks", JNum(Len(chunks))),
            Member("chunks", ChunkValue(chunks)),
            Member("chunking_config",
                   JObj(<< Member("algorithm", JStr(config.algorithm)),
                           Member("mode", JStr(config.mode)),
                           Member("size", JNum(config.size)),
                           Member("overlap", JNum(config.overlap)) >>)),
            Member("document_length", JNum(Len(text))),
            Member("index_dimension", JNum(index.d)),
            Member("index_total", JNum(ntotal(index))) >>)

SaveArgs(index, chunks, text, filename, config) ==
    [index |-> index, chunks |-> chunks, text |-> text, filename |-> filename, config |-> config]
NoArgs == [index |-> Index(<<>>), chunks |-> <<>>, text |-> <<>>, filename |-> <<>>,
           config |-> [algorithm |-> <<>>, mode |-> <<>>, size |-> 0, overlap |-> 0]]

\* what an operation returned; again: a save that rewrote the undisturbed
\* record of a save with the same arguments (history); raised: the operation
\* ended with an exception instead of returning
CacheRet(op, id, ok, index, chunks) ==
    [op |-> op, id |-> id, ok |-> ok, index |-> index, chunks |-> chunks, again |-> FALSE,
     raised |-> FALSE]

\* the arguments save_index is called with
ChunkA == <<"a">>
ChunkB == <<Quote, Backslash>>
CacheIndexes == { Index(<<0>>), Index(<<0, 100>>) }
\* a chunk list and the chunking configuration it was made with
Builds ==
    { [chunks |-> <<ChunkA>>,
       config |-> [algorithm |-> <<"s">>, mode |-> <<"t">>, size |-> 50, overlap |-> 5]],
      [chunks |-> <<ChunkB, ChunkA>>,
       config |-> [algorithm |-> <<"r">>, mode |-> <<"t">>, size |-> 20, overlap |-> 0]] }
Filenames == { <<"f">> }
Timestamps == { <<"1">>, <<"2">> }
AllSaveArgs ==
    { SaveArgs(ix, b.chunks, tx, fn, b.config) :
        ix \in CacheIndexes, b \in Builds, tx \in DocTexts, fn \in Filenames }
\* how many tokens of the sidecar a cut-short json.dump may have written
Cuts == {0, 5}

\* lines 90-103: the text json.dump writes to the sidecar, tabulated
Sidecars ==
    [a \in AllSaveArgs, now \in Timestamps |->
        JsonDump(Metadata(a.index, a.chunks, a.text, a.filename, a.config, now))]
Sidecar(a, now) == Sidecars[a, now]

\* every text a sidecar file can hold, and what json.load makes of it, tabulated
SidecarTexts ==
    { Sidecars[a, now] : a \in AllSaveArgs, now \in Timestamps }
    \cup { SubSeq(Sidecars[a, now], 1, cut) : a \in AllSaveArgs, now \in Timestamps, cut \in Cuts }
Loaded == [toks \in SidecarTexts |-> JsonLoad(toks)]
json_load(toks) == Loaded[toks]

\* lines 83-105: save_index runs to its end
SaveIndex(a, now) ==
    LET id == get_document_hash(a.text) IN
    /\ indexFile' = [indexFile EXCEPT ![id] = IndexContents(a.index)]
    /\ metaFile' = [metaFile EXCEPT ![id] = TextContents(Sidecar(a, now))]
    /\ savedWith' = [savedWith EXCEPT ![id] = a]
    /\ intact' = [intact EXCEPT ![id] = TRUE]
    /\ cache_ret' = [CacheRet("save", id, TRUE, Index(<<>>), <<>>)
                        EXCEPT !.again = intact[id] /\ savedWith[id] = a]

\* lines 83-103: save_index is cut short (the process dies, or a write raises)
\*   "index":   while faiss.write_index writes the index file (line 87)
\*   "between": after the index file is written, before the sidecar is opened
\*   "sidecar": while json.dump writes the sidecar; cut tokens were written
SaveIndexInterrupted(a, now, at, cut) ==
    LET id == get_document_hash(a.text) IN
    /\ at \in {"index", "between", "sidecar"}
    /\ IF at = "sidecar" THEN cut < Len(Sidecar(a, now)) ELSE cut = 0
    /\ indexFile' = [indexFile EXCEPT ![id] =
           IF at = "index" THEN Truncated ELSE IndexContents(a.index)]
    /\ metaFile' = [metaFile EXCEPT ![id] =
           IF at = "sidecar" THEN TextContents(SubSeq(Sidecar(a, now), 1, cut)) ELSE @]
    /\ savedWith' = [savedWith EXCEPT ![id] = IF at = "sidecar" THEN NoArgs ELSE @]
    /\ intact' = [intact EXCEPT ![id] = FALSE]
    /\ cache_ret' = CacheRet("save", id, FALSE, Index(<<>>), <<>>)

\* lines 122-142: what load_index returns for the files as they are
load_index(id) ==
    IF ~Exists(indexFile[id]) \/ ~Exists(metaFile[id])
    THEN CacheRet("load", id, FALSE, Index(<<>>), <<>>)
    ELSE IF indexFile[id].kind # "index"
    THEN CacheRet("load", id, FALSE, Index(<<>>), <<>>)
    ELSE LET parsed == json_load(metaFile[id].toks)
         IN IF ~parsed.ok \/ parsed.val.ty # "obj"
            THEN CacheRet("load", id, FALSE, Index(<<>>), <<>>)
            ELSE CacheRet("load", id, TRUE, indexFile[id].index,
                          ChunksOf(Get(parsed.val, "chunks", JList(<<>>))))

LoadIndex(id) ==
    /\ cache_ret' = load_index(id)
    /\ UNCHANGED <<indexFile, metaFile, savedWith, intact>>

\* lines 159-165
check_index_exists(text) ==
    LET id == get_document_hash(text)
    IN CacheRet("exists", id, Exists(indexFile[id]) /\ Exists(metaFile[id]), Index(<<>>), <<>>)

CheckIndexExists(text) ==
    /\ cache_ret' = check_index_exists(text)
    /\ UNCHANGED <<indexFile, metaFile, savedWith, intact>>

\* lines 208-218: os.remove fails on no file ("none"), on the index file
\* ("index") or on the sidecar ("sidecar")
DeleteIndex(id, fails) ==
    /\ fails \in {"none", "index", "sidecar"}
    /\ fails = "index" => Exists(indexFile[id])
    /\ fails = "sidecar" => Exists(metaFile[id])
    /\ indexFile' = [indexFile EXCEPT ![id] = IF fails = "index" THEN @ ELSE Absent]
    /\ metaFile' = [metaFile EXCEPT ![id] = IF fails = "none" THEN Absent ELSE @]
    /\ savedWith' = [savedWith EXCEPT ![id] = IF fails = "none" THEN NoArgs ELSE @]
    /\ intact' = [intact EXCEPT ![id] = FALSE]
    /\ cache_ret' = CacheRet("delete", id, fails = "none", Index(<<>>), <<>>)

\* lines 168-191: the metadata of every sidecar that json.load can read
list_saved_indexes ==
    { json_load(metaFile[id].toks).val :
        id \in { i \in Ids : metaFile[i].kind = "text" /\ json_load(metaFile[i].toks).ok } }

\* lines 29-41, called at lines 84, 122, 160 and 208 outside any try:
\* os.makedirs raises while the directory has not been created yet (the path
\* is taken by a file, or its parent cannot be written), and the exception
\* leaves the operation op
MakedirsFails(op, id) ==
    /\ op \in {"save", "load", "exists", "delete"}
    /\ cache_ret.op = "none" \/ cache_ret.raised
    /\ cache_ret' = [CacheRet(op, id, FALSE, Index(<<>>), <<>>) EXCEPT !.raised = TRUE]
    /\ UNCHANGED <<indexFile, metaFile, savedWith, intact>>

CacheIdle ==
    /\ indexFile = <<>> /\ metaFile = <<>> /\ savedWith = <<>> /\ intact = <<>> /\ cache_ret = <<>>

(***************************************************************************)
(* retrieve (core/retrieval.py)                                            *)
(* Embeddings have one coordinate, in hundredths; a distance is the        *)
(* squared L2 distance IndexFlatL2 reports, in units of 1/10000; a         *)
(* confidence is a percentage in units of 1/100.                           *)
(***************************************************************************)
\* the distance FAISS reports for a slot it could not fill (the largest float)
FLT_MAX == 1000000000
\* the label FAISS reports for a slot it could not fill
NoLabel == -1

L2(x, q) == (x - q) * (x - q)

\* the orders in which the vectors can be ranked: by ascending distance, ties
\* in any order
Rankings(index, q) ==
    { p \in [1..ntotal(index) -> 1..ntotal(index)] :
        /\ \A i, j \in 1..ntotal(index) : i # j => p[i] # p[j]
        /\ \A i \in 1..(ntotal(index) - 1) :
              L2(index.vecs[p[i]], q) <= L2(index.vecs[p[i + 1]], q) }

\* line 34, index.search(q_emb, top_k) with ranking p: k rows (distance,
\* label), labels counted from 0; the slots beyond the stored vectors are
\* filled with (FLT_MAX, -1)
Search(index, q, k, p) ==
    [j \in 1..k |->
        IF j <= ntotal(index)
        THEN [dist |-> L2(index.vecs[p[j]], q), idx |-> p[j] - 1]
        ELSE [dist |-> FLT_MAX, idx |-> NoLabel]]

\* line 38, chunks[idx] as Python indexes a list: a negative idx counts from
\* the end, an idx outside the list raises IndexError
InRange(chunks, idx) == idx < Len(chunks) /\ idx >= 0 - Len(chunks)
PyIndex(chunks, idx) == IF idx >= 0 THEN chunks[idx + 1] ELSE chunks[Len(chunks) + idx + 1]

\* round(x, 2) of a percentage given as twice its value in units of 1/100:
\* halves go to the even neighbour
RoundHalfEven(twice) ==
    IF twice % 2 = 0 THEN twice \div 2
    ELSE IF ((twice - 1) \div 2) % 2 = 0 THEN (twice - 1) \div 2 ELSE (twice + 1) \div 2

\* a variant without the clamp
ConfidenceUnclamped(dist) == RoundHalfEven(20000 - dist)

\* lines 44-47: cosine_sim = max(0, min(1, 1 - dist / 2)), in units of
\* 1/20000, and confidence = round(cosine_sim * 100, 2)
Confidence(dist) == RoundHalfEven(Max(0, Min(20000, 20000 - dist)))

\* lines 36-55: the result list of the rows, or the IndexError of line 38
Results(chunks, rows) ==
    IF \E j \in 1..Len(rows) : ~InRange(chunks, rows[j].idx)
    THEN [kind |-> "raise", results |-> <<>>]
    ELSE [kind |-> "return",
          results |-> [j \in 1..Len(rows) |->
                         [chunk |-> PyIndex(chunks, rows[j].idx),
                          distance |-> rows[j].dist,
                          confidence |-> Confidence(rows[j].dist)]]]

\* lines 32-55, for one ranking of the index
Retrieve(p) ==
    /\ rt_pc = "ready"
    /\ rt_search' = Search(rt_index, rt_query, top_k, p)
    /\ rt_ret' = Results(rt_chunks, rt_search')
    /\ rt_pc' = "done"
    /\ UNCHANGED <<rt_index, rt_chunks, rt_query, top_k>>

\* line 32: embed_query raises, and so does retrieve
RetrieveEmbedFails ==
    /\ rt_pc = "ready"
    /\ rt_ret' = [kind |-> "raise", results |-> <<>>]
    /\ rt_pc' = "done"
    /\ UNCHANGED <<rt_index, rt_chunks, rt_query, top_k, rt_search>>

NoResult == [kind |-> "none", results |-> <<>>]

RtIdle ==
    /\ rt_pc = "idle" /\ rt_index = Index(<<>>) /\ rt_chunks = <<>> /\ rt_query = 0
    /\ top_k = 0 /\ rt_search = <<>> /\ rt_ret = NoResult

(***************************************************************************)
(* zero_shot_extraction (analysis/flow_comparison.py)                      *)
(***************************************************************************)
\* the keys the response object may hold
ZsKeys == {"a", "b"}

\* extracted.get(field_name, {}) when the key is absent: the empty dict
EmptyDict == [kind |-> "dict", value |-> Missing, confidence |-> NoNumber]
AbsentKey == [kind |-> "absent", value |-> Missing, confidence |-> NoNumber]

\* what the response object can hold under a key: a dict with (or without)
\* "value", "confidence" and "reason", or something that is not a dict
\* (a string, or a value Python takes as false such as null)
FieldData ==
    { [kind |-> "dict",  value |-> "v",      confidence |-> 85],
      [kind |-> "dict",  value |-> "v",      confidence |-> 150],
      EmptyDict,
      [kind |-> "dict",  value |-> "v",      confidence |-> NotANumber],
      [kind |-> "other", value |-> "legacy", confidence |-> NoNumber],
      [kind |-> "other", value |-> "",       confidence |-> NoNumber] }

\* One generate_content call raises, or returns text that is not JSON, JSON
\* that is not an object, or a JSON object; tokens: the size of the response.
ZsOutcomes ==
    { [kind |-> k, obj |-> [n \in ZsKeys |-> AbsentKey], tokens |-> 2] : k \in {"raise", "text", "list"} }
    \cup { [kind |-> "object", obj |-> f, tokens |-> 5] : f \in [ZsKeys -> FieldData \cup {AbsentKey}] }

NoOutcome == [kind |-> "none", obj |-> [n \in ZsKeys |-> AbsentKey], tokens |-> 0]

\* line 133
FieldDataOf(obj, name) ==
    IF name \in DOMAIN obj /\ obj[name].kind # "absent" THEN obj[name] ELSE EmptyDict

\* lines 135-150: the record of one field
ZsRecord(name, data) ==
    IF data.kind = "dict"
    THEN [field_name |-> name,
          value |-> IF data.value = Missing THEN "N/A" ELSE data.value,
          confidence |-> IF data.confidence = NoNumber THEN 50 ELSE data.confidence,
          confidence_reason |-> IF data.value = Missing THEN "No reason provided" ELSE "reason",
          source |-> "zero-shot"]
    ELSE [field_name |-> name,
          value |-> IF data.value = "" THEN "N/A" ELSE data.value,
          confidence |-> 50,
          confidence_reason |-> "Legacy format - no confidence provided",
          source |-> "zero-shot"]

\* lines 131-150 raise: extracted.get on JSON that is not an object, or
\* float() on a confidence that is not a number
ZsFormatFails(flds, o) ==
    \E k \in 1..Len(flds) :
        \/ o.kind = "list"
        \/ FieldDataOf(o.obj, flds[k].field_name).confidence = NotANumber

\* the tokens of the prompt, which lists the fields
PromptTokens(flds) == 10 + Len(flds)

\* lines 117-127
ZsMetrics(flds, o) ==
    [error |-> FALSE, llm_input_tokens |-> PromptTokens(flds), llm_output_tokens |-> o.tokens,
     total_tokens |-> PromptTokens(flds) + o.tokens, api_calls |-> 1]

\* lines 100-111 (calls = 1) and 155-166 (calls = 0)
ZsErrorMetrics(calls) ==
    [error |-> TRUE, llm_input_tokens |-> 0, llm_output_tokens |-> 0,
     total_tokens |-> 0, api_calls |-> calls]

ZsPending == [kind |-> "pending", results |-> <<>>, metrics |-> ZsErrorMetrics(0)]
ZsNone(calls) == [kind |-> "none", results |-> <<>>, metrics |-> ZsErrorMetrics(calls)]
ZsRaised == [kind |-> "raise", results |-> <<>>, metrics |-> ZsErrorMetrics(0)]

\* lines 35-167. Line 39 reads f['field_name'] of every field before the
\* try block: a field without that key raises KeyError out of the function.
ZeroShotExtraction(o) ==
    /\ zs_pc = "ready"
    /\ zs_pc' = "done"
    /\ IF \E k \in 1..Len(zs_fields) : zs_fields[k].field_name = Missing
       THEN /\ zs_ret' = ZsRaised
            /\ zs_calls' = zs_calls
            /\ zs_resp' = NoOutcome
       ELSE /\ zs_calls' = zs_calls + 1
            /\ zs_resp' = o
            /\ zs_ret' =
                 IF o.kind = "raise" THEN ZsNone(0)
                 ELSE IF o.kind = "text" THEN ZsNone(1)
                 ELSE IF ZsFormatFails(zs_fields, o) THEN ZsNone(0)
                 ELSE [kind |-> "results",
                       results |-> [k \in 1..Len(zs_fields) |->
                                      ZsRecord(zs_fields[k].field_name,
                                               FieldDataOf(o.obj, zs_fields[k].field_name))],
                       metrics |-> ZsMetrics(zs_fields, o)]
    /\ UNCHANGED zs_fields

ZsIdle ==
    /\ zs_pc = "idle" /\ zs_fields = <<>> /\ zs_calls = 0 /\ zs_resp = NoOutcome /\ zs_ret = ZsPending

(***************************************************************************)
(* Strings as Python handles them: a string is a sequence of characters.   *)
(***************************************************************************)
UpperChars == <<"A", "B", "C", "D", "E", "N", "O", "R", "F", "T", "U">>
LowerChars == <<"a", "b", "c", "d", "e", "n", "o", "r", "f", "t", "u">>
Whitespace == {" ", "\n"}

\* str.lower
LowerChar(c) ==
    IF \E k \in 1..Len(UpperChars) : UpperChars[k] = c
    THEN LowerChars[CHOOSE k \in 1..Len(UpperChars) : UpperChars[k] = c]
    ELSE c
Lower(str) == [k \in 1..Len(str) |-> LowerChar(str[k])]

\* str.strip: without the leading and the trailing whitespace
RECURSIVE LStrip(_)
LStrip(str) ==
    IF str # <<>> /\ Head(str) \in Whitespace THEN LStrip(Tail(str)) ELSE str
RECURSIVE RStrip(_)
RStrip(str) ==
    IF str # <<>> /\ str[Len(str)] \in Whitespace THEN RStrip(SubSeq(str, 1, Len(str) - 1)) ELSE str
Strip(str) == RStrip(LStrip(str))

\* sub in str
Contains(sub, str) ==
    \E i \in 0..(Len(str) - Len(sub)) : SubSeq(str, i + 1, i + Len(sub)) = sub

\* set(str.split()): the maximal runs of characters that are not whitespace
WordSet(str) ==
    { SubSeq(str, r[1], r[2]) :
        r \in { ij \in (1..Len(str)) \X (1..Len(str)) :
                  /\ ij[1] <= ij[2]
                  /\ \A k \in ij[1]..ij[2] : str[k] \notin Whitespace
                  /\ (ij[1] = 1 \/ str[ij[1] - 1] \in Whitespace)
                  /\ (ij[2] = Len(str) \/ str[ij[2] + 1] \in Whitespace) } }

S_NA == <<"N", "/", "A">>
S_na == <<"n", "/", "a">>
S_ERROR == <<"E", "R", "R", "O", "R">>

(***************************************************************************)
(* calc_match (analysis/flow_comparison.py)                                *)
(***************************************************************************)
\* a variant that tries the word rule before the substring rule
CalcMatchWordsFirst(extracted, master) ==
    IF master = <<>> \/ Lower(master) = S_na
    THEN [match |-> "N/A", score |-> 0]
    ELSE LET extracted_lower == Strip(Lower(extracted))
             master_lower == Strip(Lower(master))
         IN IF extracted_lower = master_lower
            THEN [match |-> "exact", score |-> 100]
            ELSE IF \E word \in WordSet(master_lower) : Contains(word, extracted_lower)
            THEN [match |-> "fuzzy", score |-> 40]
            ELSE IF Contains(master_lower, extracted_lower) \/ Contains(extracted_lower, master_lower)
            THEN [match |-> "partial", score |-> 70]
            ELSE [match |-> "mismatch", score |-> 0]

\* lines 351-364
calc_match(extracted, master) ==
    IF master = <<>> \/ Lower(master) = S_na
    THEN [match |-> "N/A", score |-> 0]
    ELSE LET extracted_lower == Strip(Lower(extracted))
             master_lower == Strip(Lower(master))
         IN IF extracted_lower = master_lower
            THEN [match |-> "exact", score |-> 100]
            ELSE IF Contains(master_lower, extracted_lower) \/ Contains(extracted_lower, master_lower)
            THEN [match |-> "partial", score |-> 70]
            ELSE IF \E word \in WordSet(master_lower) : Contains(word, extracted_lower)
            THEN [match |-> "fuzzy", score |-> 40]
            ELSE [match |-> "mismatch", score |-> 0]

(***************************************************************************)
(* calculate_hallucination_score (analysis/hallucination.py)               *)
(***************************************************************************)
\* a variant whose thresholds are not strict
OverlapScoreNotStrict(found, total) ==
    IF 5 * found >= 4 * total THEN 20
    ELSE IF 2 * found >= total THEN 40
    ELSE IF 5 * found >= total THEN 60
    ELSE 80

\* lines 43-50, for overlap = found / total: > 0.8, > 0.5, > 0.2
OverlapScore(found, total) ==
    IF 5 * found > 4 * total THEN 20
    ELSE IF 2 * found > total THEN 40
    ELSE IF 5 * found > total THEN 60
    ELSE 80

\* lines 24-50
calculate_hallucination_score(extracted, master, context) ==
    IF extracted \in {S_NA, S_ERROR, <<>>} THEN 0
    ELSE LET extracted_lower == Strip(Lower(extracted))
             master_lower == IF master # <<>> THEN Strip(Lower(master)) ELSE <<>>
             extracted_words == WordSet(extracted_lower)
             context_words == WordSet(Lower(context))
         IN IF extracted_lower = master_lower THEN 0
            ELSE IF Contains(extracted_lower, Lower(context)) THEN 10
            ELSE IF extracted_words = {} THEN 80
            ELSE OverlapScore(Cardinality(extracted_words \cap context_words),
                              Cardinality(extracted_words))

NoScore == [match |-> "", score |-> -1]

\* calc_match(extracted_value, master_value) is called
CalcMatch ==
    /\ sc_pc = "ready"
    /\ sc_fn = "calc_match"
    /\ sc_ret' = calc_match(extracted_value, master_value)
    /\ sc_pc' = "done"
    /\ UNCHANGED <<sc_fn, extracted_value, master_value, context_text>>

\* calculate_hallucination_score(extracted_value, master_value, context_text) is called
CalculateHallucinationScore ==
    /\ sc_pc = "ready"
    /\ sc_fn = "calculate_hallucination_score"
    /\ sc_ret' = [match |-> "",
                  score |-> calculate_hallucination_score(extracted_value, master_value, context_text)]
    /\ sc_pc' = "done"
    /\ UNCHANGED <<sc_fn, extracted_value, master_value, context_text>>

ScIdle ==
    /\ sc_pc = "idle" /\ sc_fn = "" /\ extracted_value = <<>> /\ master_value = <<>>
    /\ context_text = <<>> /\ sc_ret = NoScore

(***************************************************************************)
(* compare_outputs (analysis/flow_comparison.py)                           *)
(* A result set is None or a list of records; percentages are in tenths    *)
(* of a percent, as round(x, 1) leaves them.                               *)
(***************************************************************************)
None == [none |-> TRUE, rows |-> <<>>]
Some(rows) == [none |-> FALSE, rows |-> rows]
\* a result set Python takes as true: neither None nor the empty list
Truthy(rs) == ~rs.none /\ rs.rows # <<>>

\* round(n / d, 0) for n >= 0 and d > 0: to the nearest, halves to the even
RoundRatio(n, d) ==
    LET q == n \div d
        r == n % d
    IN IF 2 * r < d THEN q
       ELSE IF 2 * r > d THEN q + 1
       ELSE IF q % 2 = 0 THEN q ELSE q + 1

\* a variant that takes the last result of the name
FindLast(rs, name) ==
    IF Truthy(rs) /\ \E j \in 1..Len(rs.rows) : rs.rows[j].field_name = name
    THEN LET j == CHOOSE j \in 1..Len(rs.rows) :
                     /\ rs.rows[j].field_name = name
                     /\ \A i \in (j + 1)..Len(rs.rows) : rs.rows[i].field_name # name
         IN [found |-> TRUE, value |-> rs.rows[j].value, confidence |-> rs.rows[j].confidence]
    ELSE [found |-> FALSE, value |-> S_NA, confidence |-> 0]

\* lines 338-348 and 391: next(r for r in results if r["field_name"] ==
\* field_name) if results else None, and the value and confidence read of it
Find(rs, name) ==
    IF Truthy(rs) /\ \E j \in 1..Len(rs.rows) : rs.rows[j].field_name = name
    THEN LET j == CHOOSE j \in 1..Len(rs.rows) :
                     /\ rs.rows[j].field_name = name
                     /\ \A i \in 1..(j - 1) : rs.rows[i].field_name # name
         IN [found |-> TRUE, value |-> rs.rows[j].value, confidence |-> rs.rows[j].confidence]
    ELSE [found |-> FALSE, value |-> S_NA, confidence |-> 0]

\* lines 333-398: the report row of one master field
ReportRow(master_field, zs, rag, doc) ==
    LET zs_result == Find(zs, master_field.field_name)
        rag_result == Find(rag, master_field.field_name)
        zs_m == calc_match(zs_result.value, master_field.value)
        rag_m == calc_match(rag_result.value, master_field.value)
    IN [field_name |-> master_field.field_name,
        master_value |-> master_field.value,
        zero_shot_value |-> zs_result.value,
        zero_shot_match |-> zs_m.match,
        zero_shot_score |-> zs_m.score,
        zero_shot_confidence |-> zs_result.confidence,
        zero_shot_hallucination |->
            calculate_hallucination_score(zs_result.value, master_field.value, doc),
        rag_value |-> rag_result.value,
        rag_match |-> rag_m.match,
        rag_score |-> rag_m.score,
        rag_confidence |-> rag_result.confidence,
        rag_hallucination |->
            calculate_hallucination_score(rag_result.value, master_field.value, doc)]

RECURSIVE SumOf(_)
SumOf(nums) == IF nums = <<>> THEN 0 ELSE Head(nums) + SumOf(Tail(nums))

\* lines 369-377 and 400-425: the summary of one method, from the scores and
\* hallucination scores of its rows and from its result set
Summary(scores, hallucinations, rs) ==
    LET total_fields == Len(scores)
        correct == Cardinality({k \in 1..total_fields : scores[k] = 100})
        partial == Cardinality({k \in 1..total_fields : scores[k] # 100 /\ scores[k] > 0})
        valued == Cardinality({j \in 1..Len(rs.rows) : rs.rows[j].value \notin {S_NA, S_ERROR}})
    IN [accuracy |-> IF total_fields > 0 THEN RoundRatio(correct * 1000, total_fields) ELSE 0,
        partial_match |-> IF total_fields > 0 THEN RoundRatio(partial * 1000, total_fields) ELSE 0,
        exact_matches |-> correct,
        partial_matches |-> partial,
        mismatches |-> total_fields - correct - partial,
        avg_hallucination |->
            IF total_fields > 0 THEN RoundRatio(SumOf(hallucinations) * 10, total_fields) ELSE 0,
        field_coverage |->
            IF Truthy(rs) /\ total_fields > 0 THEN RoundRatio(valued * 1000, total_fields) ELSE 0]

\* lines 319-427
compare_outputs(master, zs, rag, doc) ==
    LET rows == [k \in 1..Len(master) |-> ReportRow(master[k], zs, rag, doc)]
    IN [fields |-> rows,
        zero_shot_summary |->
            Summary([k \in 1..Len(rows) |-> rows[k].zero_shot_score],
                    [k \in 1..Len(rows) |-> rows[k].zero_shot_hallucination], zs),
        rag_summary |->
            Summary([k \in 1..Len(rows) |-> rows[k].rag_score],
                    [k \in 1..Len(rows) |-> rows[k].rag_hallucination], rag)]

NoReport == [fields |-> <<>>, zero_shot_summary |-> <<>>, rag_summary |-> <<>>]

CompareOutputs ==
    /\ cmp_pc = "ready"
    /\ comparison' = compare_outputs(master_output, zero_shot_results, rag_results, document_text)
    /\ cmp_pc' = "done"
    /\ UNCHANGED <<master_output, zero_shot_results, rag_results, document_text>>

CmpIdle ==
    /\ cmp_pc = "idle" /\ master_output = <<>> /\ zero_shot_results = None
    /\ rag_results = None /\ document_text = <<>> /\ comparison = NoReport

(***************************************************************************)
(* chunk_text_sliding_window in token mode (core/chunking.py)              *)
(* A token is named by its position in the encoded text.                   *)
(***************************************************************************)
BlankText == [blank |-> TRUE, toks |-> <<>>]
\* a text that is not blank and encodes to n >= 1 tokens
TextOf(n) == [blank |-> FALSE, toks |-> [k \in 1..n |-> k]]

\* enc.decode(part): the text of the tokens
Decode(part) == [decoded |-> part]

\* tokens[i:i + size] for i >= 0, as Python slices a list
Slice(toks, i, n) ==
    IF n <= 0 \/ i >= Len(toks) THEN <<>>
    ELSE SubSeq(toks, i + 1, Min(i + n, Len(toks)))

\* a variant that steps by the whole window
StepOfSize(sz, ov) == Max(sz, 1)

\* a variant of the step that may stay where it is
StepOrStay(sz, ov) == Max(sz - ov, 0)

\* line 56
StepOf(sz, ov) == Max(sz - ov, 1)

\* lines 31-32: a blank text has no chunks
ChunkBlank ==
    /\ ch_pc = "ready"
    /\ ch_text.blank
    /\ ch_pc' = "done"
    /\ ch_chunks' = <<>>
    /\ UNCHANGED <<ch_text, size, overlap, tokens, step, ch_i>>

\* lines 53-56
ChunkEncode ==
    /\ ch_pc = "ready"
    /\ ~ch_text.blank
    /\ tokens' = ch_text.toks
    /\ ch_chunks' = <<>>
    /\ step' = StepOf(size, overlap)
    /\ ch_i' = 0
    /\ ch_pc' = "loop"
    /\ UNCHANGED <<ch_text, size, overlap>>

\* lines 58-61: one iteration of for i in range(0, len(tokens), step)
ChunkWindow ==
    /\ ch_pc = "loop"
    /\ ch_i < Len(tokens)
    /\ LET part == Slice(tokens, ch_i, size)
       IN ch_chunks' = IF part # <<>> THEN Append(ch_chunks, Decode(part)) ELSE ch_chunks
    /\ ch_i' = ch_i + step
    /\ UNCHANGED <<ch_pc, ch_text, size, overlap, tokens, step>>

\* line 63
ChunkReturn ==
    /\ ch_pc = "loop"
    /\ ch_i >= Len(tokens)
    /\ ch_pc' = "done"
    /\ UNCHANGED <<ch_text, size, overlap, tokens, step, ch_i, ch_chunks>>

ChIdle ==
    /\ ch_pc = "idle" /\ ch_text = BlankText /\ size = 0 /\ overlap = 0 /\ tokens = <<>>
    /\ step = 0 /\ ch_i = 0 /\ ch_chunks = <<>>

(***************************************************************************)
(* rag_extraction: the context of one field (analysis/flow_comparison.py)  *)
(***************************************************************************)
ChunkCharLimit == 200
TopChunkCount == 2
Ellipsis == <<".", ".", ".">>
Newline == <<"\n">>

\* "\n".join(parts)
RECURSIVE JoinLines(_)
JoinLines(parts) ==
    IF parts = <<>> THEN <<>>
    ELSE IF Len(parts) = 1 THEN parts[1]
    ELSE parts[1] \o Newline \o JoinLines(Tail(parts))

\* a variant that takes one more result
TopChunksOfThree(rs) == SubSeq(rs, 1, Min(TopChunkCount + 1, Len(rs)))

\* line 207
TopChunks(rs) == SubSeq(rs, 1, Min(TopChunkCount, Len(rs)))

\* lines 213-216
TruncateChunk(chunk_text) ==
    IF Len(chunk_text) > ChunkCharLimit
    THEN SubSeq(chunk_text, 1, ChunkCharLimit) \o Ellipsis
    ELSE chunk_text

\* lines 203-219, when the retriever answers
RagContext ==
    /\ rg_pc = "ready"
    /\ retrieved.kind = "list"
    /\ LET top_chunks == TopChunks(retrieved.results)
           parts == [k \in 1..Len(top_chunks) |-> TruncateChunk(top_chunks[k].chunk)]
       IN /\ context_parts' = parts
          /\ rag_context' = JoinLines(parts)
    /\ rg_pc' = "done"
    /\ UNCHANGED retrieved

\* line 203 raises: the handler of lines 266-278 records an ERROR result and
\* no context is built
RagRetrieverFails ==
    /\ rg_pc = "ready"
    /\ retrieved.kind = "raise"
    /\ rg_pc' = "failed"
    /\ UNCHANGED <<retrieved, context_parts, rag_context>>

RgIdle ==
    /\ rg_pc = "idle" /\ retrieved = [kind |-> "raise"] /\ context_parts = <<>>
    /\ rag_context = <<>>

(***************************************************************************)
(* extract_field_value_simple (core/extraction.py)                         *)
(* Texts are character sequences.                                          *)
(***************************************************************************)
S_not_found == <<"n", "o", "t", " ", "f", "o", "u", "n", "d">>
S_Not_Found == <<"N", "o", "t", " ", "F", "o", "u", "n", "d">>
S_value == <<"v">>

\* what the extraction call of lines 133-136 does: it raises, or returns a
\* response whose text is a string, or a response without text (None)
ExtractionCalls ==
    { [kind |-> "raise", msg |-> m.text, text |-> <<>>] : m \in ErrorMessages }
    \cup { [kind |-> "notext", msg |-> "", text |-> <<>>] }
    \cup { [kind |-> "text", msg |-> "", text |-> t] :
             t \in { S_value, <<" ">> \o S_value \o <<" ">>, <<>>, <<" ">>, S_NA, S_na,
                     S_na \o <<" ">>, S_not_found, S_Not_Found, <<" ">> \o S_Not_Found,
                     S_not_found \o <<".">>, S_ERROR } }

\* what the confidence call of lines 153-156 does: it raises, or returns a
\* response without text, text that is not JSON, a JSON list, or a JSON
\* object (fenced or not) with or without "confidence" and "reasoning"
ConfidenceCalls ==
    { [kind |-> k, confidence |-> NoNumber, reasoning |-> Missing] :
         k \in {"raise", "notext", "notjson", "list"} }
    \cup { [kind |-> k, confidence |-> c, reasoning |-> r] :
             k \in {"object", "fenced"}, c \in {85, 150, NoNumber, NotANumber},
             r \in {"given", Missing} }

\* a variant that compares the value as it is
IsSentinelAsGiven(value) == value \in {S_na, S_not_found, <<>>}

\* line 170: extracted_value.lower() in ["n/a", "not found", ""]
IsSentinel(value) == Lower(value) \in {S_na, S_not_found, <<>>}

\* lines 168-171: the fallback confidence and reasoning
Fallback(value) ==
    LET confidence == IF ~IsSentinel(value) THEN 75 ELSE 20
    IN [value |-> value, confidence |-> confidence,
        reasoning |-> IF confidence > 50 THEN "Value found in document context"
                      ELSE "Value not clearly found"]

\* lines 158-166: what the confidence response gives; a response without
\* text, text that is not JSON, a list, and a confidence float() rejects raise
\* inside the inner try
ConfidenceOf(value, c) ==
    IF c.kind \in {"object", "fenced"} /\ c.confidence # NotANumber
    THEN [value |-> value,
          confidence |-> IF c.confidence = NoNumber THEN 70 ELSE c.confidence,
          reasoning |-> IF c.reasoning = Missing THEN "Value extracted from context"
                        ELSE c.reasoning]
    ELSE Fallback(value)

\* lines 176-177: the triple returned when the extraction step raised
ErrorTriple(o) ==
    [value |-> S_ERROR, confidence |-> 0,
     reasoning |-> IF o.kind = "raise" THEN o.msg
                   ELSE "'NoneType' object has no attribute 'strip'"]

\* lines 132-138 and 176-177: the extraction call
EfsExtract(o) ==
    /\ efs_pc = "extract"
    /\ efs_calls' = Append(efs_calls, [call |-> "extract", ended |-> o.kind, confidence |-> NoNumber])
    /\ IF o.kind = "text"
       THEN /\ efs_value' = Strip(o.text)
            /\ efs_pc' = "confidence"
            /\ efs_ret' = efs_ret
       ELSE /\ efs_value' = efs_value
            /\ efs_pc' = "returned"
            /\ efs_ret' = ErrorTriple(o)

\* lines 152-173: the confidence call and the return
EfsConfidence(c) ==
    /\ efs_pc = "confidence"
    /\ efs_calls' = Append(efs_calls, [call |-> "confidence", ended |-> c.kind,
                                      confidence |-> c.confidence])
    /\ efs_ret' = ConfidenceOf(efs_value, c)
    /\ efs_pc' = "returned"
    /\ UNCHANGED efs_value

NoTriple == [value |-> <<>>, confidence |-> -1, reasoning |-> ""]

\* lines 99-177 as a function of what its two generation calls do
extract_field_value_simple(o, c) ==
    IF o.kind = "text" THEN ConfidenceOf(Strip(o.text), c) ELSE ErrorTriple(o)

(***************************************************************************)
(* compare_chunking_algorithms (analysis/benchmarking.py): the benchmark   *)
(* runs of one algorithm, with the extractor the function makes            *)
(***************************************************************************)
\* lines 137-143: extractor(q) for a retrieval outcome r and the outcomes o, c
\* of the two generation calls. Confidences are whole numbers, which
\* round(confidence, 1) leaves as they are. failed: where the extraction
\* failed ("no": it did not)
MadeExtractor(r, o, c) ==
    IF ~r.ok
    THEN [ok |-> FALSE, value |-> <<>>, confidence |-> 0, chunks |-> 0, ms |-> 120,
          failed |-> "retrieval"]
    ELSE LET t == extract_field_value_simple(o, c)
         IN [ok |-> TRUE, value |-> t.value, confidence |-> t.confidence, chunks |-> r.n,
             ms |-> 120, failed |-> IF o.kind = "raise" THEN "generation" ELSE "no"]

\* lines 37-72 of run_benchmark_test, called at lines 146-152 with the made
\* extractor: one iteration of the loop
AlgoRun(r, o, c) ==
    LET x == MadeExtractor(r, o, c) IN
    /\ bm_pc = "loop"
    /\ bm_i < num_runs
    /\ LET logged == bm_log
                     \o (IF bm_callback THEN <<Ev("progress", bm_i, "running")>> ELSE <<>>)
                     \o <<Ev("call", bm_i, x.failed)>>
       IN /\ bm_results' = Append(bm_results, IF x.ok THEN RunRecord(bm_i, x) ELSE RunErrorRecord(bm_i))
          /\ bm_log' = logged \o RunSleep(bm_i, num_runs, bm_delay, ~x.ok, bm_callback)
    /\ bm_i' = bm_i + 1
    /\ UNCHANGED <<bm_pc, num_runs, bm_delay, bm_callback>>

EfsIdle ==
    /\ efs_pc = "idle" /\ efs_calls = <<>> /\ efs_value = <<>> /\ efs_ret = NoTriple

(***************************************************************************)
(* chunk_text_recursive in token mode (core/chunking.py), called with the  *)
(* text, size and overlap of the sliding-window call                       *)
(***************************************************************************)
\* tokens[a:b] as Python slices a list: a negative index counts from the end
SliceBound(k, n) == IF k < 0 THEN Max(k + n, 0) ELSE Min(k, n)
PySlice(toks, a, b) ==
    LET lo == SliceBound(a, Len(toks))
        hi == SliceBound(b, Len(toks))
    IN IF lo < hi THEN SubSeq(toks, lo + 1, hi) ELSE <<>>

\* a variant that steps by the whole window
RecStepOfSize(sz, ov) == sz

\* line 129: size - overlap if overlap > 0 else size
RecStep(sz, ov) == IF ov > 0 THEN sz - ov ELSE sz

\* lines 83-84: a blank text has no chunks
RecBlank ==
    /\ rc_pc = "ready"
    /\ ch_text.blank
    /\ rc_pc' = "done"
    /\ rc_chunks' = <<>>
    /\ UNCHANGED <<rc_tokens, rc_i>>

\* lines 119-124
RecEncode ==
    /\ rc_pc = "ready"
    /\ ~ch_text.blank
    /\ rc_tokens' = ch_text.toks
    /\ rc_chunks' = <<>>
    /\ rc_i' = 0
    /\ rc_pc' = "loop"

\* lines 125-129: one iteration of while i < len(tokens); maxWindows bounds
\* the iterations that are followed
RecWindow(maxWindows) ==
    /\ rc_pc = "loop"
    /\ rc_i < Len(rc_tokens)
    /\ Len(rc_chunks) < maxWindows
    /\ LET end == Min(rc_i + size, Len(rc_tokens))
           chunk_tokens == PySlice(rc_tokens, rc_i, end)
       IN rc_chunks' = Append(rc_chunks, Decode(chunk_tokens))
    /\ rc_i' = rc_i + RecStep(size, overlap)
    /\ UNCHANGED <<rc_pc, rc_tokens>>

\* line 131
RecReturn ==
    /\ rc_pc = "loop"
    /\ rc_i >= Len(rc_tokens)
    /\ rc_pc' = "done"
    /\ UNCHANGED <<rc_tokens, rc_i, rc_chunks>>

RcIdle ==
    /\ rc_pc = "idle" /\ rc_tokens = <<>> /\ rc_i = 0 /\ rc_chunks = <<>>

(***************************************************************************)
(* chunk_text_recursive in paragraph mode (core/chunking.py)               *)
(* Texts are character sequences.                                          *)
(***************************************************************************)
\* line 87
Separators == << <<"\n", "\n">>, <<"\n">>, <<".", " ">>, <<" ">>, <<>> >>

\* str.split(sep) for a separator that is not empty
RECURSIVE SplitOn(_, _)
SplitOn(str, sep) ==
    LET at == { i \in 1..(Len(str) - Len(sep) + 1) : SubSeq(str, i, i + Len(sep) - 1) = sep }
    IN IF at = {} THEN <<str>>
       ELSE LET i == CHOOSE j \in at : \A k \in at : j <= k
            IN <<SubSeq(str, 1, i - 1)>> \o SplitOn(SubSeq(str, i + Len(sep), Len(str)), sep)

\* len(str.split()): the number of maximal runs without whitespace
WordCount(str) == Cardinality({ i \in 1..Len(str) :
                      /\ str[i] \notin Whitespace
                      /\ (i = 1 \/ str[i - 1] \in Whitespace) })

\* line 104: len(split) > size
TooLong(split, sz) == Len(split) > sz

\* lines 90-110
RECURSIVE split_text(_, _, _)
RECURSIVE SplitEach(_, _, _)
split_text(text, seps, sz) ==
    IF seps = <<>> THEN <<text>>
    ELSE IF Head(seps) = <<>> THEN [k \in 1..Len(text) |-> <<text[k]>>]
    ELSE SplitEach(SplitOn(text, Head(seps)), seps, sz)

\* lines 103-108: the loop over the splits
SplitEach(splits, seps, sz) ==
    IF splits = <<>> THEN <<>>
    ELSE (IF TooLong(Head(splits), sz) THEN split_text(Head(splits), Tail(seps), sz)
          ELSE IF Strip(Head(splits)) # <<>> THEN <<Head(splits)>>
          ELSE <<>>)
         \o SplitEach(Tail(splits), seps, sz)

NonBlank(strs) == SelectSeq(strs, LAMBDA c : Strip(c) # <<>>)

\* line 114: [p.strip() for p in text.split("\n\n") if p.strip()]
Paragraphs(text) ==
    LET ps == NonBlank(SplitOn(text, <<"\n", "\n">>))
    IN [k \in 1..Len(ps) |-> Strip(ps[k])]

\* lines 83-84
RpBlank ==
    /\ rp_pc = "ready"
    /\ Strip(rp_text) = <<>>
    /\ rp_pc' = "done"
    /\ UNCHANGED <<rp_text, rp_size, initial_chunks, rp_k, current_chunk, final_chunks>>

\* lines 113-114 and 134-135
RpSplit ==
    /\ rp_pc = "ready"
    /\ Strip(rp_text) # <<>>
    /\ initial_chunks' = Paragraphs(rp_text)
    /\ final_chunks' = <<>>
    /\ current_chunk' = <<>>
    /\ rp_k' = 0
    /\ rp_pc' = "loop"
    /\ UNCHANGED <<rp_text, rp_size>>

\* lines 137-149: one iteration of the loop over initial_chunks
RpUnit ==
    /\ rp_pc = "loop"
    /\ rp_k < Len(initial_chunks)
    /\ LET chunk == initial_chunks[rp_k + 1]
           flushed == IF current_chunk # <<>> THEN Append(final_chunks, current_chunk)
                      ELSE final_chunks
       IN IF WordCount(current_chunk) + WordCount(chunk) <= rp_size
          THEN /\ current_chunk' = current_chunk
                                   \o (IF current_chunk # <<>> THEN <<" ">> ELSE <<>>) \o chunk
               /\ final_chunks' = final_chunks
          ELSE IF WordCount(chunk) > rp_size
          THEN /\ final_chunks' = flushed \o NonBlank(split_text(chunk, Separators, rp_size))
               /\ current_chunk' = <<>>
          ELSE /\ final_chunks' = flushed
               /\ current_chunk' = chunk
    /\ rp_k' = rp_k + 1
    /\ UNCHANGED <<rp_pc, rp_text, rp_size, initial_chunks>>

\* lines 151-154
RpReturn ==
    /\ rp_pc = "loop"
    /\ rp_k >= Len(initial_chunks)
    /\ final_chunks' = IF current_chunk # <<>> THEN Append(final_chunks, current_chunk)
                       ELSE final_chunks
    /\ rp_pc' = "done"
    /\ UNCHANGED <<rp_text, rp_size, initial_chunks, rp_k, current_chunk>>

RpIdle ==
    /\ rp_pc = "idle" /\ rp_text = <<>> /\ rp_size = 0 /\ initial_chunks = <<>> /\ rp_k = 0
    /\ current_chunk = <<>> /\ final_chunks = <<>>

(***************************************************************************)
(* The index building block of the application (app.py lines 78-152)       *)
(***************************************************************************)
\* the chunking configurations of the settings panel
Configs == { b.config : b \in Builds }

\* lines 100-106: chunk_text, tabulated: the chunk list a configuration gives
ChunkText(text, config) == (CHOOSE b \in Builds : b.config = config).chunks

\* lines 114-126: embed_documents and build_faiss_index: one vector per chunk
BuiltIndex(chunks) == Index([k \in 1..Len(chunks) |-> (k - 1) * 100])

EmptySession == [pdf_text |-> <<>>, chunks |-> <<>>, index |-> Index(<<>>)]
NoRequest == [text |-> <<>>, config |-> NoArgs.config, ended |-> "none"]

\* lines 78-152: one build request for the text and the configuration of
\* the settings panel. ended: "loaded" (lines 82-98), "built" (lines 100-152)
\* or "stopped" (the embedding failed, lines 114-122)
AppBuild(text, config, filename, now, embedded) ==
    LET id == get_document_hash(text)
        existing_hash == check_index_exists(text).ok
        loaded_data == load_index(id)
        chunks == ChunkText(text, config)
        index == BuiltIndex(chunks)
    IN IF existing_hash /\ loaded_data.ok
       THEN /\ session' = [pdf_text |-> text, chunks |-> loaded_data.chunks,
                           index |-> loaded_data.index]
            /\ app_req' = [text |-> text, config |-> config, ended |-> "loaded"]
            /\ cache_ret' = loaded_data
            /\ UNCHANGED <<indexFile, metaFile, savedWith, intact>>
       ELSE IF ~embedded
       THEN /\ app_req' = [text |-> text, config |-> config, ended |-> "stopped"]
            /\ cache_ret' = IF existing_hash THEN loaded_data ELSE check_index_exists(text)
            /\ UNCHANGED <<session, indexFile, metaFile, savedWith, intact>>
       ELSE /\ session' = [pdf_text |-> text, chunks |-> chunks, index |-> index]
            /\ app_req' = [text |-> text, config |-> config, ended |-> "built"]
            /\ SaveIndex(SaveArgs(index, chunks, text, filename, config), now)

AppIdle ==
    /\ session = EmptySession /\ app_req = NoRequest

(***************************************************************************)
(* Specifications                                                          *)
(***************************************************************************)
MaxRetry == 3
MaxFields == 2
MaxRuns == 3
Delays == {1, 2}
FieldNames == {"a", Missing}

SeqsUpTo(S, n) == UNION { [1..k -> S] : k \in 0..n }

\* extract_field_value called on its own
InitExtract ==
    /\ efv_pc = "call"
    /\ retry_count \in 0..MaxRetry
    /\ attempt = 0
    /\ efv_log = <<>>
    /\ efv_ret = NoRet
    /\ EafIdle /\ BmIdle /\ CacheIdle /\ RtIdle
    /\ ZsIdle
    /\ ScIdle
    /\ CmpIdle
    /\ ChIdle
    /\ RgIdle
    /\ EfsIdle
    /\ RcIdle
    /\ RpIdle
    /\ AppIdle

NextExtract ==
    /\ eaf_pc = "idle"
    /\ \/ \E o \in Outcomes : EfvAttempt(o)
       \/ EfvExhausted
    /\ UNCHANGED <<eafVars, bmVars, cacheVars, rtVars>>
    /\ UNCHANGED zsVars
    /\ UNCHANGED scVars
    /\ UNCHANGED cmpVars
    /\ UNCHANGED chVars
    /\ UNCHANGED rgVars
    /\ UNCHANGED efsVars
    /\ UNCHANGED rcVars
    /\ UNCHANGED rpVars
    /\ UNCHANGED appVars

SpecExtract == InitExtract /\ [][NextExtract]_vars

\* extract_all_fields and rag_extraction; the generation calls of a batch
\* are drawn from a part of Outcomes
BatchOutcomes ==
    { o \in Outcomes :
        \/ o.ok /\ (o.resp.kind = "text" \/ o.resp.confidence \in {85, NotANumber})
        \/ ~o.ok /\ o.msg.text \in {"server error", "429 too many requests", "429 retry in 30s"} }

InitBatch ==
    /\ eaf_pc = "field"
    /\ eaf_fn \in {"extract_all_fields", "rag_extraction"}
    /\ fields \in SeqsUpTo([field_name : FieldNames], MaxFields)
    /\ delay_seconds \in Delays
    /\ progress_callback \in BOOLEAN
    /\ eaf_i = 0
    /\ results = <<>>
    /\ eaf_log = <<>>
    /\ EfvIdle /\ BmIdle /\ CacheIdle /\ RtIdle
    /\ ZsIdle
    /\ ScIdle
    /\ CmpIdle
    /\ ChIdle
    /\ RgIdle
    /\ EfsIdle
    /\ RcIdle
    /\ RpIdle
    /\ AppIdle

NextBatch ==
    /\ \/ \E r \in RetrieverOutcomes : EafRetrieve(r)
       \/ (\E o \in BatchOutcomes : EfvAttempt(o)) /\ UNCHANGED eafVars
       \/ EafExtracted
       \/ \E r \in RetrieverOutcomes, o \in BatchOutcomes : RagField(r, o)
       \/ EafReturn
    /\ UNCHANGED <<bmVars, cacheVars, rtVars>>
    /\ UNCHANGED zsVars
    /\ UNCHANGED scVars
    /\ UNCHANGED cmpVars
    /\ UNCHANGED chVars
    /\ UNCHANGED rgVars
    /\ UNCHANGED efsVars
    /\ UNCHANGED rcVars
    /\ UNCHANGED rpVars
    /\ UNCHANGED appVars

SpecBatch == InitBatch /\ [][NextBatch]_vars

\* run_benchmark_test
InitBench ==
    /\ bm_pc = "loop"
    /\ num_runs \in 0..MaxRuns
    /\ bm_delay \in Delays
    /\ bm_callback \in BOOLEAN
    /\ bm_i = 0
    /\ bm_results = <<>>
    /\ bm_log = <<>>
    /\ EfvIdle /\ EafIdle /\ CacheIdle /\ RtIdle
    /\ ZsIdle
    /\ ScIdle
    /\ CmpIdle
    /\ ChIdle
    /\ RgIdle
    /\ EfsIdle
    /\ RcIdle
    /\ RpIdle
    /\ AppIdle

NextBench ==
    /\ \/ \E o \in ExtractorOutcomes : BmRun(o)
       \/ BmReturn
    /\ UNCHANGED <<efvVars, eafVars, cacheVars, rtVars>>
    /\ UNCHANGED zsVars
    /\ UNCHANGED scVars
    /\ UNCHANGED cmpVars
    /\ UNCHANGED chVars
    /\ UNCHANGED rgVars
    /\ UNCHANGED efsVars
    /\ UNCHANGED rcVars
    /\ UNCHANGED rpVars
    /\ UNCHANGED appVars

SpecBench == InitBench /\ [][NextBench]_vars

\* run_benchmark_test with progress callbacks and sleeps that may raise
NextBenchFaults ==
    \/ NextBench
    \/ /\ \E o \in ExtractorOutcomes, fault \in {"running", "waiting", "sleep", "sleeps"} :
             BmRunFaulty(o, fault)
       /\ UNCHANGED <<efvVars, eafVars, cacheVars, rtVars, zsVars, scVars, cmpVars>>
       /\ UNCHANGED <<chVars, rgVars, efsVars, rcVars, rpVars, appVars>>

SpecBenchFaults == InitBench /\ [][NextBenchFaults]_vars

\* the index cache
InitCache ==
    /\ indexFile = [id \in Ids |-> Absent]
    /\ metaFile = [id \in Ids |-> Absent]
    /\ savedWith = [id \in Ids |-> NoArgs]
    /\ intact = [id \in Ids |-> FALSE]
    /\ cache_ret = CacheRet("none", get_document_hash(<<"x">>), FALSE, Index(<<>>), <<>>)
    /\ EfvIdle /\ EafIdle /\ BmIdle /\ RtIdle
    /\ ZsIdle
    /\ ScIdle
    /\ CmpIdle
    /\ ChIdle
    /\ RgIdle
    /\ EfsIdle
    /\ RcIdle
    /\ RpIdle
    /\ AppIdle

NextCache ==
    /\ \/ \E a \in AllSaveArgs, now \in Timestamps : SaveIndex(a, now)
       \/ \E a \in AllSaveArgs, now \in Timestamps, at \in {"index", "between", "sidecar"},
             cut \in Cuts : SaveIndexInterrupted(a, now, at, cut)
       \/ \E id \in Ids : LoadIndex(id)
       \/ \E t \in DocTexts : CheckIndexExists(t)
       \/ \E id \in Ids, fails \in {"none", "index", "sidecar"} : DeleteIndex(id, fails)
       \/ \E op \in {"save", "load", "exists", "delete"}, id \in Ids : MakedirsFails(op, id)
    /\ UNCHANGED <<efvVars, eafVars, bmVars, rtVars>>
    /\ UNCHANGED zsVars
    /\ UNCHANGED scVars
    /\ UNCHANGED cmpVars
    /\ UNCHANGED chVars
    /\ UNCHANGED rgVars
    /\ UNCHANGED efsVars
    /\ UNCHANGED rcVars
    /\ UNCHANGED rpVars
    /\ UNCHANGED appVars

SpecCache == InitCache /\ [][NextCache]_vars

\* retrieve
MaxVecs == 3
MaxTopK == 4
Coords == {0, 1, 100, 150}
\* the chunk list of a document: chunk number k stands for its text
ChunkList(n) == [k \in 1..n |-> k]

InitRetrieve ==
    /\ rt_pc = "ready"
    /\ rt_index \in { Index(v) : v \in UNION { [1..n -> Coords] : n \in 1..MaxVecs } }
    /\ rt_chunks \in { ChunkList(n) : n \in 1..MaxVecs }
    /\ rt_query \in Coords
    /\ top_k \in 1..MaxTopK
    /\ rt_search = <<>>
    /\ rt_ret = NoResult
    /\ EfvIdle /\ EafIdle /\ BmIdle /\ CacheIdle
    /\ ZsIdle
    /\ ScIdle
    /\ CmpIdle
    /\ ChIdle
    /\ RgIdle
    /\ EfsIdle
    /\ RcIdle
    /\ RpIdle
    /\ AppIdle

NextRetrieve ==
    /\ \/ \E p \in Rankings(rt_index, rt_query) : Retrieve(p)
       \/ RetrieveEmbedFails
    /\ UNCHANGED <<efvVars, eafVars, bmVars, cacheVars>>
    /\ UNCHANGED zsVars
    /\ UNCHANGED scVars
    /\ UNCHANGED cmpVars
    /\ UNCHANGED chVars
    /\ UNCHANGED rgVars
    /\ UNCHANGED efsVars
    /\ UNCHANGED rcVars
    /\ UNCHANGED rpVars
    /\ UNCHANGED appVars

SpecRetrieve == InitRetrieve /\ [][NextRetrieve]_vars

\* zero_shot_extraction
MaxZsFields == 2
ZsNames == {"a", "b", Missing}

InitZeroShot ==
    /\ zs_pc = "ready"
    /\ zs_fields \in SeqsUpTo([field_name : ZsNames], MaxZsFields)
    /\ zs_calls = 0
    /\ zs_resp = NoOutcome
    /\ zs_ret = ZsPending
    /\ EfvIdle /\ EafIdle /\ BmIdle /\ CacheIdle /\ RtIdle
    /\ ScIdle
    /\ CmpIdle
    /\ ChIdle
    /\ RgIdle
    /\ EfsIdle
    /\ RcIdle
    /\ RpIdle
    /\ AppIdle

NextZeroShot ==
    /\ \E o \in ZsOutcomes : ZeroShotExtraction(o)
    /\ UNCHANGED <<efvVars, eafVars, bmVars, cacheVars, rtVars>>
    /\ UNCHANGED scVars
    /\ UNCHANGED cmpVars
    /\ UNCHANGED chVars
    /\ UNCHANGED rgVars
    /\ UNCHANGED efsVars
    /\ UNCHANGED rcVars
    /\ UNCHANGED rpVars
    /\ UNCHANGED appVars

SpecZeroShot == InitZeroShot /\ [][NextZeroShot]_vars

\* calc_match and calculate_hallucination_score
MaxStrLen == 3
Alphabet == {"a", "B", " "}
S_abc == <<"a", " ", "b", " ", "c">>
S_abcde == <<"a", " ", "b", " ", "c", " ", "d", " ", "e">>
Extracteds == SeqsUpTo(Alphabet, MaxStrLen) \cup {S_NA, S_na, S_ERROR, S_abc, S_abcde}
Masters == SeqsUpTo(Alphabet, MaxStrLen) \cup {S_NA, S_na, S_abc}
HallucinationMasters == {<<>>, <<"a">>, <<"B", " ">>}
Contexts ==
    { <<>>,
      <<"b">>,
      <<"c", " ", "B">>,
      <<"e", " ", "d", " ", "c", " ", "b">>,
      <<"e", " ", "d", " ", "c", " ", "b", " ", "a">>,
      <<"x", "a", " ", "B", "x">> }

InitScorer ==
    /\ sc_pc = "ready"
    /\ sc_fn \in {"calc_match", "calculate_hallucination_score"}
    /\ extracted_value \in Extracteds
    /\ IF sc_fn = "calc_match"
       THEN master_value \in Masters /\ context_text = <<>>
       ELSE master_value \in HallucinationMasters /\ context_text \in Contexts
    /\ sc_ret = NoScore
    /\ EfvIdle /\ EafIdle /\ BmIdle /\ CacheIdle /\ RtIdle /\ ZsIdle
    /\ CmpIdle
    /\ ChIdle
    /\ RgIdle
    /\ EfsIdle
    /\ RcIdle
    /\ RpIdle
    /\ AppIdle

NextScorer ==
    /\ \/ CalcMatch
       \/ CalculateHallucinationScore
    /\ UNCHANGED <<efvVars, eafVars, bmVars, cacheVars, rtVars, zsVars>>
    /\ UNCHANGED cmpVars
    /\ UNCHANGED chVars
    /\ UNCHANGED rgVars
    /\ UNCHANGED efsVars
    /\ UNCHANGED rcVars
    /\ UNCHANGED rpVars
    /\ UNCHANGED appVars

SpecScorer == InitScorer /\ [][NextScorer]_vars

\* compare_outputs
MaxMaster == 2
MaxResults == 2
CmpNames == {"a", "b"}
MasterFields == [field_name : CmpNames, value : {<<"a">>, <<>>}]
ResultRecords ==
    { [field_name |-> n, value |-> v, confidence |-> IF v = S_ERROR THEN 0 ELSE 85] :
        n \in CmpNames, v \in {<<"a">>, <<"B">>, S_NA, S_ERROR} }
RagResultSets ==
    { None,
      Some(<< [field_name |-> "a", value |-> <<"a", " ", "B">>, confidence |-> 85],
              [field_name |-> "a", value |-> S_NA, confidence |-> 50],
              [field_name |-> "c", value |-> <<"B">>, confidence |-> 85] >>) }

InitCompare ==
    /\ cmp_pc = "ready"
    /\ master_output \in SeqsUpTo(MasterFields, MaxMaster)
    /\ zero_shot_results \in {None} \cup { Some(r) : r \in SeqsUpTo(ResultRecords, MaxResults) }
    /\ rag_results \in RagResultSets
    /\ document_text = <<"x", "a", " ", "B">>
    /\ comparison = NoReport
    /\ EfvIdle /\ EafIdle /\ BmIdle /\ CacheIdle /\ RtIdle /\ ZsIdle /\ ScIdle
    /\ ChIdle
    /\ RgIdle
    /\ EfsIdle
    /\ RcIdle
    /\ RpIdle
    /\ AppIdle

NextCompare ==
    /\ CompareOutputs
    /\ UNCHANGED <<efvVars, eafVars, bmVars, cacheVars, rtVars, zsVars, scVars>>
    /\ UNCHANGED chVars
    /\ UNCHANGED rgVars
    /\ UNCHANGED efsVars
    /\ UNCHANGED rcVars
    /\ UNCHANGED rpVars
    /\ UNCHANGED appVars

SpecCompare == InitCompare /\ [][NextCompare]_vars

\* chunk_text_sliding_window
MaxTokens == 5
MaxSize == 3

InitChunk ==
    /\ ch_pc = "ready"
    /\ ch_text \in {BlankText} \cup { TextOf(n) : n \in 1..MaxTokens }
    /\ size \in 0..MaxSize
    /\ overlap \in 0..MaxSize
    /\ tokens = <<>>
    /\ step = 0
    /\ ch_i = 0
    /\ ch_chunks = <<>>
    /\ EfvIdle /\ EafIdle /\ BmIdle /\ CacheIdle /\ RtIdle /\ ZsIdle /\ ScIdle /\ CmpIdle
    /\ RgIdle
    /\ EfsIdle
    /\ RcIdle
    /\ RpIdle
    /\ AppIdle

NextChunk ==
    /\ \/ ChunkBlank
       \/ ChunkEncode
       \/ ChunkWindow
       \/ ChunkReturn
    /\ UNCHANGED <<efvVars, eafVars, bmVars, cacheVars, rtVars, zsVars, scVars, cmpVars>>
    /\ UNCHANGED rgVars
    /\ UNCHANGED efsVars
    /\ UNCHANGED rcVars
    /\ UNCHANGED rpVars
    /\ UNCHANGED appVars

SpecChunk == InitChunk /\ [][NextChunk]_vars

\* the call runs on: a step that is enabled is taken
SpecChunkFair == SpecChunk /\ WF_vars(NextChunk)

\* both chunkers on one text, the sliding window first, as
\* compare_chunking_algorithms calls them
MaxWindows == 7

InitTwoChunkers ==
    /\ ch_pc = "ready"
    /\ ch_text \in {BlankText} \cup { TextOf(n) : n \in 1..MaxTokens }
    /\ size \in 1..MaxSize
    /\ overlap \in 0..(MaxSize + 1)
    /\ tokens = <<>>
    /\ step = 0
    /\ ch_i = 0
    /\ ch_chunks = <<>>
    /\ rc_pc = "ready"
    /\ rc_tokens = <<>>
    /\ rc_i = 0
    /\ rc_chunks = <<>>
    /\ EfvIdle /\ EafIdle /\ BmIdle /\ CacheIdle /\ RtIdle /\ ZsIdle /\ ScIdle /\ CmpIdle
    /\ RgIdle /\ EfsIdle
    /\ RpIdle
    /\ AppIdle

NextTwoChunkers ==
    /\ \/ (ChunkBlank \/ ChunkEncode \/ ChunkWindow \/ ChunkReturn) /\ UNCHANGED rcVars
       \/ /\ ch_pc = "done"
          /\ (RecBlank \/ RecEncode \/ RecWindow(MaxWindows) \/ RecReturn)
          /\ UNCHANGED chVars
    /\ UNCHANGED <<efvVars, eafVars, bmVars, cacheVars, rtVars, zsVars, scVars, cmpVars>>
    /\ UNCHANGED <<rgVars, efsVars>>
    /\ UNCHANGED rpVars
    /\ UNCHANGED appVars

SpecTwoChunkers == InitTwoChunkers /\ [][NextTwoChunkers]_vars

\* rag_extraction, context of one field
MaxRetrieved == 3
\* a text of n characters whose last character differs from the others
ChunkTextOf(c, n) == [k \in 1..n |-> IF k = n THEN "z" ELSE c]
ChunkTexts ==
    { ChunkTextOf(c, n) : c \in {"a", "b"}, n \in {0, ChunkCharLimit, ChunkCharLimit + 1} }
RetrievedResults == [chunk : ChunkTexts]

InitRagContext ==
    /\ rg_pc = "ready"
    /\ retrieved \in {[kind |-> "raise"]} \cup
           { [kind |-> "list", results |-> rs] :
                 rs \in UNION { [1..n -> RetrievedResults] : n \in 0..MaxRetrieved } }
    /\ context_parts = <<>>
    /\ rag_context = <<>>
    /\ EfvIdle /\ EafIdle /\ BmIdle /\ CacheIdle /\ RtIdle /\ ZsIdle /\ ScIdle /\ CmpIdle
    /\ ChIdle
    /\ EfsIdle
    /\ RcIdle
    /\ RpIdle
    /\ AppIdle

NextRagContext ==
    /\ \/ RagContext
       \/ RagRetrieverFails
    /\ UNCHANGED <<efvVars, eafVars, bmVars, cacheVars, rtVars, zsVars, scVars, cmpVars>>
    /\ UNCHANGED chVars
    /\ UNCHANGED efsVars
    /\ UNCHANGED rcVars
    /\ UNCHANGED rpVars
    /\ UNCHANGED appVars

SpecRagContext == InitRagContext /\ [][NextRagContext]_vars

\* extract_field_value_simple
InitSimple ==
    /\ efs_pc = "extract"
    /\ efs_calls = <<>>
    /\ efs_value = <<>>
    /\ efs_ret = NoTriple
    /\ EfvIdle /\ EafIdle /\ BmIdle /\ CacheIdle /\ RtIdle /\ ZsIdle /\ ScIdle /\ CmpIdle
    /\ ChIdle /\ RgIdle
    /\ RcIdle
    /\ RpIdle
    /\ AppIdle

NextSimple ==
    /\ \/ \E o \in ExtractionCalls : EfsExtract(o)
       \/ \E c \in ConfidenceCalls : EfsConfidence(c)
    /\ UNCHANGED <<efvVars, eafVars, bmVars, cacheVars, rtVars, zsVars, scVars, cmpVars>>
    /\ UNCHANGED <<chVars, rgVars>>
    /\ UNCHANGED rcVars
    /\ UNCHANGED rpVars
    /\ UNCHANGED appVars

SpecSimple == InitSimple /\ [][NextSimple]_vars

\* the benchmark runs of compare_chunking_algorithms for one algorithm
AlgoRetrievals == { [ok |-> FALSE, n |-> 0], [ok |-> TRUE, n |-> 2] }
AlgoExtractions ==
    { o \in ExtractionCalls :
        \/ o.kind = "raise" /\ o.msg = "server error"
        \/ o.kind = "text" /\ o.text \in {S_value, S_NA} }
AlgoConfidences ==
    { c \in ConfidenceCalls :
        \/ c.kind = "raise"
        \/ c.kind = "object" /\ c.confidence = 85 /\ c.reasoning = "given" }

InitAlgo ==
    /\ bm_pc = "loop"
    /\ num_runs \in 0..MaxRuns
    /\ bm_delay \in Delays
    /\ bm_callback \in BOOLEAN
    /\ bm_i = 0
    /\ bm_results = <<>>
    /\ bm_log = <<>>
    /\ EfvIdle /\ EafIdle /\ CacheIdle /\ RtIdle /\ ZsIdle /\ ScIdle /\ CmpIdle
    /\ ChIdle /\ RgIdle /\ EfsIdle
    /\ RcIdle
    /\ RpIdle
    /\ AppIdle

NextAlgo ==
    /\ \/ \E r \in AlgoRetrievals, o \in AlgoExtractions, c \in AlgoConfidences : AlgoRun(r, o, c)
       \/ BmReturn
    /\ UNCHANGED <<efvVars, eafVars, cacheVars, rtVars, zsVars, scVars, cmpVars>>
    /\ UNCHANGED <<chVars, rgVars, efsVars>>
    /\ UNCHANGED rcVars
    /\ UNCHANGED rpVars
    /\ UNCHANGED appVars

SpecAlgo == InitAlgo /\ [][NextAlgo]_vars

\* chunk_text_recursive in paragraph mode
MaxTextLen == 5
TextChars == {"a", " ", ".", "\n"}

InitParagraph ==
    /\ rp_pc = "ready"
    /\ rp_text \in UNION { [1..n -> TextChars] : n \in 0..MaxTextLen }
    /\ rp_size \in 1..MaxSize
    /\ initial_chunks = <<>>
    /\ rp_k = 0
    /\ current_chunk = <<>>
    /\ final_chunks = <<>>
    /\ EfvIdle /\ EafIdle /\ BmIdle /\ CacheIdle /\ RtIdle /\ ZsIdle /\ ScIdle /\ CmpIdle
    /\ ChIdle /\ RgIdle /\ EfsIdle /\ RcIdle
    /\ AppIdle

NextParagraph ==
    /\ \/ RpBlank
       \/ RpSplit
       \/ RpUnit
       \/ RpReturn
    /\ UNCHANGED <<efvVars, eafVars, bmVars, cacheVars, rtVars, zsVars, scVars, cmpVars>>
    /\ UNCHANGED <<chVars, rgVars, efsVars, rcVars>>
    /\ UNCHANGED appVars

SpecParagraph == InitParagraph /\ [][NextParagraph]_vars

\* build requests of the application, and administrative deletes
InitApp ==
    /\ indexFile = [id \in Ids |-> Absent]
    /\ metaFile = [id \in Ids |-> Absent]
    /\ savedWith = [id \in Ids |-> NoArgs]
    /\ intact = [id \in Ids |-> FALSE]
    /\ cache_ret = CacheRet("none", get_document_hash(<<"x">>), FALSE, Index(<<>>), <<>>)
    /\ session = EmptySession
    /\ app_req = NoRequest
    /\ EfvIdle /\ EafIdle /\ BmIdle /\ RtIdle /\ ZsIdle /\ ScIdle /\ CmpIdle
    /\ ChIdle /\ RgIdle /\ EfsIdle /\ RcIdle /\ RpIdle

NextApp ==
    /\ \/ \E t \in DocTexts, c \in Configs, fn \in Filenames, now \in Timestamps,
             embedded \in BOOLEAN : AppBuild(t, c, fn, now, embedded)
       \/ /\ \E id \in Ids, fails \in {"none", "index", "sidecar"} : DeleteIndex(id, fails)
          /\ UNCHANGED appVars
    /\ UNCHANGED <<efvVars, eafVars, bmVars, rtVars, zsVars, scVars, cmpVars>>
    /\ UNCHANGED <<chVars, rgVars, efsVars, rcVars, rpVars>>

SpecApp == InitApp /\ [][NextApp]_vars

(***************************************************************************)
(* Claims                                                                  *)
(***************************************************************************)
Count(log, P(_)) == Len(SelectSeq(log, P))
IsSleep(e) == e.ev = "sleep"
IsCall(e) == e.ev = "call"
NotProgress(e) == e.ev # "progress"

\* field number k (counted from 1) failed: its retrieval, its generation
\* call or extract_field_value raised
FieldFailed(k) ==
    \E p \in 1..Len(eaf_log) : eaf_log[p].n = k - 1 /\ eaf_log[p].msg = "raise"

\* field number k was processed: its retrieval was attempted
FieldProcessed(k) ==
    \E p \in 1..Len(eaf_log) : eaf_log[p].ev = "retrieve" /\ eaf_log[p].n = k - 1

\* C1: extract_all_fields and rag_extraction return exactly one record per
\* input field, in input order; the record of a field whose retrieval or
\* generation raised has value "ERROR" and confidence 0, and the fields
\* after a failed one are still processed.
C1_OneRecordPerField ==
    /\ Len(results) = eaf_i
    /\ \A k \in 1..Len(results) :
          /\ results[k].field_name = FieldName(fields[k], k - 1)
          /\ FieldProcessed(k)
          /\ FieldFailed(k) => results[k].value = "ERROR" /\ results[k].confidence = 0
    /\ eaf_pc = "done" => Len(results) = Len(fields)

\* a batch of two fields has returned; the first field failed, the second did not
C1_Witness ==
    /\ eaf_pc = "done"
    /\ Len(fields) = 2
    /\ FieldFailed(1) /\ results[1].value = "ERROR"
    /\ ~FieldFailed(2) /\ results[2].value = "v"

\* the events of the batch log that C4 orders: retrievals, generations, sleeps
IsBatchStep(e) == e.ev \in {"retrieve", "generate", "sleep"}
SleepsBefore(log, p) == Count(SubSeq(log, 1, p - 1), IsSleep)
IsRetrieve(e) == e.ev = "retrieve"
RetrievesBefore(log, p) == Count(SubSeq(log, 1, p - 1), IsRetrieve)

\* C4: exactly one batch-level sleep occurs between two consecutive fields,
\* of delay_seconds if the earlier field succeeded and 2 x delay_seconds if
\* it failed; no sleep follows the last field; retrieval and generation for
\* field i+1 start only after the sleep that follows field i.
C4_OneSleepBetweenFields ==
    /\ \A p \in 1..Len(eaf_log) :
          LET e == eaf_log[p] IN
          /\ e.ev \in {"retrieve", "generate"} => SleepsBefore(eaf_log, p) = e.n
          /\ e.ev = "sleep" =>
                LET k == RetrievesBefore(eaf_log, p) IN
                /\ SleepsBefore(eaf_log, p) = k - 1
                /\ k < Len(fields)
                /\ k <= Len(results)
                /\ e.n = IF FieldFailed(k) THEN 2 * delay_seconds ELSE delay_seconds
    /\ Count(eaf_log, IsSleep) = Max(Min(eaf_i, Len(fields) - 1), 0)
    /\ (eaf_pc = "extract" /\ efv_pc = "call") => Count(eaf_log, IsSleep) = eaf_i

\* a batch of two fields has returned: the first failed, one doubled sleep, then field two generated
C4_Witness ==
    /\ eaf_pc = "done"
    /\ Len(fields) = 2
    /\ FieldFailed(1)
    /\ SelectSeq(eaf_log, IsSleep) = <<Ev("sleep", 2 * delay_seconds, "")>>
    /\ \E p \in 1..Len(eaf_log) : eaf_log[p] = Ev("generate", 1, "ok")

\* the batch log without progress events
BmSteps == SelectSeq(bm_log, NotProgress)

\* C2: run_benchmark_test calls the extractor exactly num_runs times and
\* returns exactly num_runs records with run indices 1..num_runs in order;
\* a run whose extractor raised is recorded with value "ERROR", confidence 0
\* and elapsed time 0 and does not abort the remaining runs.
C2_OneRecordPerRun ==
    LET calls == SelectSeq(bm_log, IsCall) IN
    /\ Len(bm_results) = bm_i
    /\ Len(calls) = bm_i
    /\ \A k \in 1..Len(bm_results) :
          /\ bm_results[k].run = k
          /\ calls[k].n = k - 1
          /\ calls[k].msg = "raise" =>
                /\ bm_results[k].value = "ERROR"
                /\ bm_results[k].confidence = 0
                /\ bm_results[k].time_ms = 0
    /\ bm_pc = "done" => Len(bm_results) = num_runs /\ Len(calls) = num_runs

\* three runs have returned; the first extractor call raised, the later ones ran
C2_Witness ==
    /\ bm_pc = "done"
    /\ num_runs = 3
    /\ bm_results[1].error
    /\ bm_results[2].value = "v"
    /\ bm_results[3].value = "w"

\* C3: run_benchmark_test sleeps exactly once after every run except the
\* last, never before the first run or after the last; the sleep after run
\* i lasts delay_seconds if run i succeeded and 2 x delay_seconds if it raised.
C3_SleepAfterEachRunButLast ==
    LET steps == BmSteps IN
    /\ \A p \in 1..Len(steps) :
          IF p % 2 = 1
          THEN steps[p].ev = "call" /\ steps[p].n = (p - 1) \div 2
          ELSE /\ steps[p].ev = "sleep"
               /\ steps[p].n = IF steps[p - 1].msg = "raise" THEN 2 * bm_delay ELSE bm_delay
    /\ bm_i < num_runs => Len(steps) = 2 * bm_i
    /\ (bm_i = num_runs /\ num_runs >= 1) =>
          /\ Len(steps) = 2 * num_runs - 1
          /\ Count(bm_log, IsSleep) = num_runs - 1
    /\ num_runs = 0 => bm_log = <<>>

\* three runs have returned: a short sleep after the first, a doubled one after the second
C3_Witness ==
    /\ bm_pc = "done"
    /\ num_runs = 3
    /\ SelectSeq(bm_log, IsSleep) = <<Ev("sleep", bm_delay, ""), Ev("sleep", 2 * bm_delay, "")>>

\* the text of a rate-limit message
IsRateLimitText(t) == \E m \in ErrorMessages : m.text = t /\ IsRateLimit(m)
\* the delay the message carries, NoHint if none
HintOfText(t) == (CHOOSE m \in ErrorMessages : m.text = t).retry

\* C5: in extract_field_value a rate-limit error on any attempt before the
\* last is followed by a sleep (the suggested delay capped at 60 s when the
\* message carries one, otherwise a backoff delay) and a further attempt;
\* the quota error is raised only when all retry_count attempts have failed.
C5_RateLimitAlwaysRetried ==
    /\ \A p \in 1..Len(efv_log) :
          (/\ efv_log[p].ev = "error"
           /\ IsRateLimitText(efv_log[p].msg)
           /\ efv_log[p].n < retry_count - 1) =>
              /\ p + 2 <= Len(efv_log) \/ (p + 1 = Len(efv_log) /\ efv_pc = "call")
              /\ efv_log[p + 1].ev = "sleep"
              /\ efv_log[p + 1].n = IF HintOfText(efv_log[p].msg) # NoHint
                                    THEN Min(HintOfText(efv_log[p].msg), SleepCap)
                                    ELSE (efv_log[p].n + 1) * 2
    /\ (efv_pc = "raised" /\ efv_ret.reasoning = QuotaMessage.text) =>
          Count(efv_log, IsCall) = retry_count

\* C6: every load_index that returns a result returns an index and a chunk
\* list written by the same save_index call (so that the chunks and the
\* vectors of an aligned save stay aligned), whatever saves, interrupted
\* saves and deletes came before.
C6_LoadReturnsOneSave ==
    (cache_ret.op = "load" /\ cache_ret.ok) =>
        /\ cache_ret.index = savedWith[cache_ret.id].index
        /\ cache_ret.chunks = savedWith[cache_ret.id].chunks

\* C7: save_index followed, with no save or delete of the same hash in
\* between, by load_index of the returned id yields the saved chunk
\* sequence in the same order and an index with the saved vector count.
C7_SaveLoadRoundTrip ==
    (cache_ret.op = "load" /\ intact[cache_ret.id]) =>
        /\ cache_ret.ok
        /\ cache_ret.chunks = savedWith[cache_ret.id].chunks
        /\ ntotal(cache_ret.index) = ntotal(savedWith[cache_ret.id].index)

\* a load returned the two chunks of an undisturbed save, one of them with
\* characters that JSON escapes
C7_Witness ==
    /\ cache_ret.op = "load"
    /\ intact[cache_ret.id]
    /\ cache_ret.ok
    /\ cache_ret.chunks = <<ChunkB, ChunkA>>
    /\ ntotal(cache_ret.index) = 1

\* the fields of the record of id that C8 names: chunks, chunking_config,
\* document_length from the sidecar, the vector count from the index file
Stored(id) ==
    LET m == json_load(metaFile[id].toks).val
    IN [chunks |-> Get(m, "chunks", JNum(0)),
        chunking_config |-> Get(m, "chunking_config", JNum(0)),
        document_length |-> Get(m, "document_length", JNum(0)),
        vectors |-> ntotal(indexFile[id].index)]

\* the ids whose sidecar names the document text t
RecordsOf(t) ==
    { id \in Ids :
        /\ metaFile[id].kind = "text"
        /\ json_load(metaFile[id].toks).ok
        /\ Get(json_load(metaFile[id].toks).val, "document_hash", JNum(0))
             = JStr(get_document_hash(t)[2]) }

\* C8: save_index is idempotent: it returns the id of the document text and
\* rewrites the two files of that id, so that the cache holds at most one
\* record per text; repeating a save with identical arguments leaves the
\* stored chunks, chunking_config, document_length and vector count
\* unchanged; the records of all other documents are untouched.
C8_SaveIdempotent ==
    [][ (cache_ret'.op = "save" /\ cache_ret'.ok /\ cache_ret' # cache_ret) =>
          LET a == savedWith'[cache_ret'.id] IN
          /\ cache_ret'.id = get_document_hash(a.text)
          /\ \A t \in DocTexts :
                /\ Cardinality(RecordsOf(t)') <= 1
                /\ t = a.text => RecordsOf(t)' = {cache_ret'.id}
                /\ t # a.text =>
                      /\ indexFile'[get_document_hash(t)] = indexFile[get_document_hash(t)]
                      /\ metaFile'[get_document_hash(t)] = metaFile[get_document_hash(t)]
          /\ \A id \in Ids :
                (id = cache_ret'.id /\ cache_ret'.again) => Stored(id)' = Stored(id)
      ]_vars

\* a save has rewritten the undisturbed record of an identical save while
\* the other document has a record too
C8_Witness ==
    /\ cache_ret.op = "save"
    /\ cache_ret.again
    /\ \A id \in Ids : intact[id]

\* C9: when top_k exceeds the number of stored vectors, retrieve returns at
\* most as many results as there are stored vectors, each for a distinct
\* stored chunk; a slot the index could not fill is never made a result.
C9_NoResultForEmptySlot ==
    (rt_pc = "done" /\ rt_ret.kind = "return" /\ top_k > ntotal(rt_index)) =>
        /\ Len(rt_ret.results) <= ntotal(rt_index)
        /\ \A i, j \in 1..Len(rt_ret.results) :
              i # j => rt_ret.results[i].chunk # rt_ret.results[j].chunk
        /\ \A j \in 1..Len(rt_search) :
              rt_search[j].idx = NoLabel => Len(rt_ret.results) < j

\* C10: for top_k not above the stored vector count, retrieve returns its
\* results in ascending order of distance, every confidence lies in
\* [0, 100] and does not increase along the list, and each result holds the
\* chunk at the position of the matched vector and its distance to the query.
C10_RankedResults ==
    (rt_pc = "done" /\ rt_ret.kind = "return" /\ top_k <= ntotal(rt_index)) =>
        LET res == rt_ret.results IN
        /\ Len(res) = top_k
        /\ \A j \in 1..Len(res) :
              /\ res[j].confidence >= 0 /\ res[j].confidence <= 10000
              /\ rt_search[j].idx \in 0..(ntotal(rt_index) - 1)
              /\ res[j].chunk = rt_chunks[rt_search[j].idx + 1]
              /\ res[j].distance = L2(rt_index.vecs[rt_search[j].idx + 1], rt_query)
              /\ \A n \in 1..ntotal(rt_index) :
                    (\A i \in 1..Len(res) : rt_search[i].idx # n - 1) =>
                        L2(rt_index.vecs[n], rt_query) >= res[j].distance
        /\ \A j \in 1..(Len(res) - 1) :
              /\ res[j].distance <= res[j + 1].distance
              /\ res[j].confidence >= res[j + 1].confidence

\* three results were returned for three vectors, the last beyond the clamp,
\* the first two with different confidences inside it
C10_Witness ==
    /\ rt_pc = "done" /\ rt_ret.kind = "return"
    /\ top_k = 3 /\ ntotal(rt_index) = 3
    /\ rt_ret.results[1].confidence = 10000
    /\ rt_ret.results[2].confidence = 5000
    /\ rt_ret.results[3].confidence = 0
    /\ rt_ret.results[3].distance > 20000


\* C11: every extraction record returned by zero_shot_extraction,
\* rag_extraction and extract_all_fields has a confidence within 0..100,
\* whatever confidence number the response of the generation model holds.
C11_ConfidenceInRange ==
    /\ \A k \in 1..Len(zs_ret.results) :
          zs_ret.results[k].confidence >= 0 /\ zs_ret.results[k].confidence <= 100
    /\ \A k \in 1..Len(results) :
          results[k].confidence >= 0 /\ results[k].confidence <= 100

\* the response of the call was not valid JSON, or the call raised
ZsCallFailed == zs_resp.kind \in {"raise", "text"}

\* C17: zero_shot_extraction makes exactly one generation call however many
\* fields are requested and has exactly two outcomes: a result list with
\* one record per requested field in input order (a field whose key is
\* absent from the response gets value "N/A" and confidence 50), or, when
\* the call fails or the response is not valid JSON, a result of none with
\* a metrics record that carries an error and zero token counts; it never
\* raises.
C17_ZeroShotTwoOutcomes ==
    zs_pc = "done" =>
        /\ zs_ret.kind \in {"results", "none"}
        /\ zs_calls = 1
        /\ zs_ret.kind = "results" =>
              /\ Len(zs_ret.results) = Len(zs_fields)
              /\ ~zs_ret.metrics.error
              /\ \A k \in 1..Len(zs_fields) :
                    /\ zs_ret.results[k].field_name = zs_fields[k].field_name
                    /\ zs_resp.obj[zs_fields[k].field_name].kind = "absent" =>
                          /\ zs_ret.results[k].value = "N/A"
                          /\ zs_ret.results[k].confidence = 50
        /\ zs_ret.kind = "none" =>
              /\ zs_ret.metrics.error
              /\ zs_ret.metrics.llm_input_tokens = 0
              /\ zs_ret.metrics.llm_output_tokens = 0
              /\ zs_ret.metrics.total_tokens = 0
        /\ ZsCallFailed => zs_ret.kind = "none"

MatchDone == sc_pc = "done" /\ sc_fn = "calc_match"
HallucinationDone == sc_pc = "done" /\ sc_fn = "calculate_hallucination_score"

\* C14: an extracted value that holds the master value as one of several
\* whitespace-delimited words, without being equal to it, is classified
\* ("fuzzy", 40) by calc_match.
C14_WordOfSeveralIsFuzzy ==
    (/\ MatchDone
     /\ Lower(master_value) # S_na
     /\ master_value \in WordSet(extracted_value)
     /\ Cardinality(WordSet(extracted_value)) >= 2) =>
        sc_ret = [match |-> "fuzzy", score |-> 40]

\* the rules of the match classification, on the strings e (extracted) and
\* m (master) they are applied to
RuleNA(m) == m = <<>> \/ Lower(m) = S_na
RuleExact(e, m) == Lower(e) = Lower(m)
RulePartial(e, m) == Contains(Lower(m), Lower(e)) \/ Contains(Lower(e), Lower(m))
RuleFuzzy(e, m) == \E w \in WordSet(Lower(m)) : Contains(w, Lower(e))
FirstRule(e, m, raw) ==
    IF RuleNA(raw) THEN [match |-> "N/A", score |-> 0]
    ELSE IF RuleExact(e, m) THEN [match |-> "exact", score |-> 100]
    ELSE IF RulePartial(e, m) THEN [match |-> "partial", score |-> 70]
    ELSE IF RuleFuzzy(e, m) THEN [match |-> "fuzzy", score |-> 40]
    ELSE [match |-> "mismatch", score |-> 0]

\* C15 as stated: the classification of calc_match is the first applicable
\* rule in the order N/A, exact (case-insensitive equality), partial (either
\* string contains the other, case-insensitive), fuzzy (a word of master
\* occurs in extracted), mismatch, with scores 0, 100, 70, 40, 0, the rules
\* applied to the two strings as given.
C15_FirstRuleAsGiven ==
    MatchDone => sc_ret = FirstRule(extracted_value, master_value, master_value)

\* C15 amended: the classification of calc_match is the first applicable
\* rule in the order N/A (master empty, or "n/a" in any case, as given),
\* exact, partial, fuzzy, mismatch, with scores 0, 100, 70, 40, 0, where
\* exact, partial and fuzzy compare the two strings without their leading
\* and trailing whitespace; a pair that meets both the partial and the
\* fuzzy condition is classified partial.
C15_FirstRuleOnTrimmed ==
    MatchDone =>
        /\ sc_ret = FirstRule(Strip(extracted_value), Strip(master_value), master_value)
        /\ (/\ ~RuleNA(master_value)
            /\ ~RuleExact(Strip(extracted_value), Strip(master_value))
            /\ RulePartial(Strip(extracted_value), Strip(master_value))
            /\ RuleFuzzy(Strip(extracted_value), Strip(master_value))) =>
               sc_ret = [match |-> "partial", score |-> 70]

\* a pair that meets both the partial and the fuzzy condition only once its
\* surrounding whitespace is dropped was classified partial
C15_Witness ==
    /\ MatchDone
    /\ extracted_value = <<" ", "a", " ">>
    /\ master_value = <<"a", " ", "B">>
    /\ sc_ret = [match |-> "partial", score |-> 70]

\* the distinct words of e, and those of them that are words of the context c
WordsOf(e) == WordSet(Lower(e))
WordsFound(e, c) == WordSet(Lower(e)) \cap WordSet(Lower(c))

\* the score of the fraction found / total: above 4/5 -> 20, above 1/2 ->
\* 40, above 1/5 -> 60, else 80
FractionScore(found, total) ==
    CASE 5 * found > 4 * total -> 20
      [] 5 * found <= 4 * total /\ 2 * found > total -> 40
      [] 2 * found <= total /\ 5 * found > total -> 60
      [] OTHER -> 80

\* the rules of the hallucination score; raw is the extracted string as
\* given, e and m the strings the comparisons are applied to
HallucinationRule(raw, e, m, c) ==
    IF raw \in {<<>>, S_NA, S_ERROR} THEN 0
    ELSE IF Lower(e) = Lower(m) THEN 0
    ELSE IF Contains(Lower(e), Lower(c)) THEN 10
    ELSE FractionScore(Cardinality(WordsFound(e, c)), Cardinality(WordsOf(e)))

\* C16 as stated: the hallucination score is one of 0, 10, 20, 40, 60, 80,
\* chosen by the first applicable rule: extracted is "", "N/A" or "ERROR"
\* -> 0; extracted equals master ignoring case -> 0; extracted occurs
\* (ignoring case) in the context -> 10; otherwise by the fraction of the
\* distinct extracted words that are context words, with strict
\* thresholds; the rules applied to the strings as given.
C16_ScoreRulesAsGiven ==
    HallucinationDone =>
        /\ sc_ret.score \in {0, 10, 20, 40, 60, 80}
        /\ sc_ret.score = HallucinationRule(extracted_value, extracted_value, master_value, context_text)

\* C16 amended: the hallucination score is one of 0, 10, 20, 40, 60, 80,
\* chosen by the first applicable rule: extracted, as given, is "", "N/A"
\* or "ERROR" -> 0; extracted equals master ignoring case and leading and
\* trailing whitespace -> 0; extracted without its leading and trailing
\* whitespace occurs (ignoring case) in the context -> 10; otherwise by the
\* fraction of the distinct extracted words that are context words, with
\* strict thresholds (> 0.8 -> 20, > 0.5 -> 40, > 0.2 -> 60, else 80), so
\* that a fraction of exactly 4/5, 1/2 or 1/5 gets the next higher score.
C16_ScoreRulesOnTrimmed ==
    HallucinationDone =>
        LET e == Strip(extracted_value)
            m == Strip(master_value)
            found == Cardinality(WordsFound(e, context_text))
            total == Cardinality(WordsOf(e))
        IN /\ sc_ret.score \in {0, 10, 20, 40, 60, 80}
           /\ sc_ret.score = HallucinationRule(extracted_value, e, m, context_text)
           /\ (sc_ret.score \notin {0, 10} /\ 5 * found = 4 * total) => sc_ret.score = 40
           /\ (sc_ret.score \notin {0, 10} /\ 2 * found = total) => sc_ret.score = 60
           /\ (sc_ret.score \notin {0, 10} /\ 5 * found = total) => sc_ret.score = 80

\* four of the five words of the extracted string are context words and the
\* score is 40
C16_Witness ==
    /\ HallucinationDone
    /\ extracted_value = S_abcde
    /\ Cardinality(WordsFound(extracted_value, context_text)) = 4
    /\ sc_ret.score = 40

\* the value the report joins to the master field of the given name: that
\* of the first result with the name, "N/A" when there is none
JoinedTo(rs, name) ==
    IF \E j \in 1..Len(rs.rows) : rs.rows[j].field_name = name
    THEN rs.rows[CHOOSE j \in 1..Len(rs.rows) :
                    /\ rs.rows[j].field_name = name
                    /\ \A i \in 1..(j - 1) : rs.rows[i].field_name # name]
    ELSE [field_name |-> name, value |-> S_NA, confidence |-> 0]

\* the percentage, in tenths, of the master fields whose joined value is
\* neither "N/A" nor "ERROR"
Coverage(rs) ==
    IF master_output = <<>> THEN 0
    ELSE RoundRatio(1000 * Cardinality({k \in 1..Len(master_output) :
                              JoinedTo(rs, master_output[k].field_name).value \notin {S_NA, S_ERROR}}),
                    Len(master_output))

\* C12: in the report of compare_outputs each method's field_coverage is
\* the percentage of master fields whose joined result value is neither
\* "N/A" nor "ERROR", and so lies between 0 and 100, also for result sets
\* that hold fields absent from the master list or repeated field names.
C12_CoverageOfMasterFields ==
    cmp_pc = "done" =>
        /\ comparison.zero_shot_summary.field_coverage = Coverage(zero_shot_results)
        /\ comparison.rag_summary.field_coverage = Coverage(rag_results)
        /\ comparison.zero_shot_summary.field_coverage \in 0..1000
        /\ comparison.rag_summary.field_coverage \in 0..1000

\* C13: compare_outputs produces exactly one report row per master field in
\* master order, joined to the first result with the same field_name (a
\* missing result counts as value "N/A" with confidence 0), and for each
\* method exact_matches + partial_matches + mismatches is the number of
\* master fields, exact counting the rows of score 100 and partial the rows
\* whose score is strictly between 0 and 100.
C13_OneRowPerMasterField ==
    cmp_pc = "done" =>
        LET rows == comparison.fields
            zs == comparison.zero_shot_summary
            rag == comparison.rag_summary
        IN /\ Len(rows) = Len(master_output)
           /\ \A k \in 1..Len(rows) :
                 /\ rows[k].field_name = master_output[k].field_name
                 /\ rows[k].master_value = master_output[k].value
                 /\ rows[k].zero_shot_value = JoinedTo(zero_shot_results, rows[k].field_name).value
                 /\ rows[k].zero_shot_confidence = JoinedTo(zero_shot_results, rows[k].field_name).confidence
                 /\ rows[k].rag_value = JoinedTo(rag_results, rows[k].field_name).value
                 /\ rows[k].rag_confidence = JoinedTo(rag_results, rows[k].field_name).confidence
           /\ zs.exact_matches + zs.partial_matches + zs.mismatches = Len(master_output)
           /\ rag.exact_matches + rag.partial_matches + rag.mismatches = Len(master_output)
           /\ zs.exact_matches = Cardinality({k \in 1..Len(rows) : rows[k].zero_shot_score = 100})
           /\ zs.partial_matches =
                 Cardinality({k \in 1..Len(rows) : rows[k].zero_shot_score > 0 /\ rows[k].zero_shot_score < 100})
           /\ rag.exact_matches = Cardinality({k \in 1..Len(rows) : rows[k].rag_score = 100})
           /\ rag.partial_matches =
                 Cardinality({k \in 1..Len(rows) : rows[k].rag_score > 0 /\ rows[k].rag_score < 100})
           /\ zs.mismatches >= 0 /\ rag.mismatches >= 0

\* a report of two rows: the zero-shot set holds the first name twice, with
\* different values, and lacks the second; the RAG set is None
C13_Witness ==
    /\ cmp_pc = "done"
    /\ Len(master_output) = 2
    /\ master_output[1].field_name = "a" /\ master_output[2].field_name = "b"
    /\ zero_shot_results = Some(<< [field_name |-> "a", value |-> <<"a">>, confidence |-> 85],
                                   [field_name |-> "a", value |-> <<"B">>, confidence |-> 85] >>)
    /\ rag_results = None
    /\ comparison.fields[1].zero_shot_value = <<"a">>
    /\ comparison.fields[2].zero_shot_value = S_NA
    /\ comparison.fields[2].zero_shot_confidence = 0

\* the token positions of window number j (from 1)
WindowOf(j) == { ch_chunks[j].decoded[k] : k \in 1..Len(ch_chunks[j].decoded) }

\* C18: for a token sequence of length n >= 1 and 0 <= O < S, token-mode
\* sliding-window chunking produces exactly ceil(n / (S - O)) >= 1 windows;
\* window j (from 0) covers the positions [j*(S-O), min(j*(S-O)+S, n)), so
\* that every token lies in a window, two consecutive full windows share
\* exactly O tokens, and no window is empty.
C18_WindowsCoverTokens ==
    (ch_pc = "done" /\ ~ch_text.blank /\ overlap < size) =>
        LET n == Len(tokens)
            d == size - overlap
        IN /\ n >= 1
           /\ Len(ch_chunks) = (n + d - 1) \div d
           /\ Len(ch_chunks) >= 1
           /\ \A j \in 1..Len(ch_chunks) :
                 /\ WindowOf(j) = { q + 1 : q \in ((j - 1) * d)..(Min((j - 1) * d + size, n) - 1) }
                 /\ ch_chunks[j].decoded # <<>>
                 /\ \A k \in 1..(Len(ch_chunks[j].decoded) - 1) :
                       ch_chunks[j].decoded[k + 1] = ch_chunks[j].decoded[k] + 1
           /\ \A q \in 1..n : \E j \in 1..Len(ch_chunks) : q \in WindowOf(j)
           /\ \A j \in 1..(Len(ch_chunks) - 1) :
                 (Cardinality(WindowOf(j)) = size /\ Cardinality(WindowOf(j + 1)) = size) =>
                     Cardinality(WindowOf(j) \cap WindowOf(j + 1)) = overlap

\* five tokens in windows of three with an overlap of one: two full windows
\* and a last window of one token
C18_Witness ==
    /\ ch_pc = "done"
    /\ Len(tokens) = 5 /\ size = 3 /\ overlap = 1
    /\ Len(ch_chunks) = 3
    /\ ch_chunks[3].decoded = <<5>>

\* the context is the parts joined by newlines, and the parts come from the
\* first results of the retriever, in its order
FromFirstTwo ==
    /\ Len(context_parts) = Min(2, Len(retrieved.results))
    /\ rag_context = JoinLines(context_parts)
    /\ \A k \in 1..Len(context_parts) :
          LET c == retrieved.results[k].chunk
              n == Min(Len(c), 200)
          IN /\ Len(context_parts[k]) >= n
             /\ SubSeq(context_parts[k], 1, n) = SubSeq(c, 1, n)

TextOfId(id) == CHOOSE t \in DocTexts : get_document_hash(t) = id

\* C20: delete_index never raises; when it returns true neither file of the
\* id remains, so that check_index_exists of the document and load_index of
\* the id return none and list_saved_indexes holds no record with that hash;
\* it returns false only after a filesystem error, that is, when a file of
\* the id was there to be removed; in both cases the files of every other id
\* are unchanged.
C20_DeleteNeverRaises ==
    [][ \A id \in Ids : (cache_ret'.op = "delete" /\ cache_ret'.id = id) =>
          /\ ~cache_ret'.raised
          /\ cache_ret'.ok =>
                /\ ~Exists(indexFile'[id]) /\ ~Exists(metaFile'[id])
                /\ ~check_index_exists(TextOfId(id))'.ok
                /\ ~load_index(id)'.ok
                /\ \A m \in list_saved_indexes' :
                      m.ty = "obj" => Get(m, "document_hash", JNum(0)) # JStr(id[2])
          /\ ~cache_ret'.ok => (Exists(indexFile[id]) \/ Exists(metaFile[id]))
          /\ \A other \in Ids \ {id} :
                /\ indexFile'[other] = indexFile[other]
                /\ metaFile'[other] = metaFile[other]
      ]_vars

\* the error at position p of the log was raised by the generation call
\* itself (not by the handling of a response the call returned)
RaisedByCall(p) == \E m \in ErrorMessages : m.text = efv_log[p].msg

\* C21: extract_field_value issues at most retry_count generation calls and
\* returns as soon as one call succeeds (a call is followed by anything else
\* only when the call itself raised); after the k-th failed attempt, k in
\* 1..retry_count-1, with a non-rate-limit error it sleeps 2*k seconds before
\* the next attempt, and when the final attempt fails with a non-rate-limit
\* error that error is raised to the caller with no sleep before it.
C21_RetryWithBackoff ==
    /\ Count(efv_log, IsCall) <= retry_count
    /\ \A p \in 1..Len(efv_log) :
          /\ (efv_log[p].ev = "call" /\ p < Len(efv_log)) =>
                /\ efv_log[p + 1].ev = "error"
                /\ RaisedByCall(p + 1)
          /\ (efv_log[p].ev = "call" /\ p = Len(efv_log)) => efv_pc = "returned"
          /\ (/\ efv_log[p].ev = "error"
              /\ ~IsRateLimitText(efv_log[p].msg)
              /\ efv_log[p].n < retry_count - 1) =>
                /\ p < Len(efv_log)
                /\ efv_log[p + 1] = Ev("sleep", 2 * (efv_log[p].n + 1), "")
                /\ p + 1 < Len(efv_log) => efv_log[p + 2] = Ev("call", efv_log[p].n + 1, "")
                /\ p + 1 = Len(efv_log) => (efv_pc = "call" /\ attempt = efv_log[p].n + 1)
          /\ (/\ efv_log[p].ev = "error"
              /\ ~IsRateLimitText(efv_log[p].msg)
              /\ efv_log[p].n >= retry_count - 1) =>
                /\ p = Len(efv_log)
                /\ efv_pc = "raised"
                /\ efv_ret.kind = "raise"
                /\ efv_ret.reasoning = efv_log[p].msg

\* the confidence call failed or its response could not be parsed
ConfidenceUnusable(c) ==
    \/ c.ended \in {"raise", "notext", "notjson", "list"}
    \/ c.confidence = NotANumber

\* C22: extract_field_value_simple never raises; it issues the confidence
\* call only after the extraction call has returned; if the extraction call
\* fails it returns ("ERROR", 0, message) and makes no second call; if the
\* confidence call fails or its response cannot be parsed it still returns
\* the extracted value, with confidence 75 when the value is none of "",
\* "n/a", "not found" in any case, and 20 otherwise.
C22_SimpleNeverRaises ==
    /\ efs_pc # "raised"
    /\ Len(efs_calls) <= 2
    /\ \A k \in 1..Len(efs_calls) :
          efs_calls[k].call = "confidence" =>
              /\ k = 2
              /\ efs_calls[1].call = "extract"
              /\ efs_calls[1].ended = "text"
    /\ (efs_calls # <<>> /\ efs_calls[1].ended = "raise") =>
          /\ efs_pc = "returned"
          /\ Len(efs_calls) = 1
          /\ efs_ret.value = <<"E", "R", "R", "O", "R">>
          /\ efs_ret.confidence = 0
          /\ \E m \in ErrorMessages : efs_ret.reasoning = m.text
    /\ (Len(efs_calls) = 2 /\ ConfidenceUnusable(efs_calls[2])) =>
          /\ efs_pc = "returned"
          /\ efs_ret.value = efs_value
          /\ efs_ret.confidence =
                IF \E s \in {<<>>, <<"n", "/", "a">>,
                             <<"n", "o", "t", " ", "f", "o", "u", "n", "d">>} :
                       Len(s) = Len(efs_value)
                       /\ \A k \in 1..Len(s) : LowerChar(efs_value[k]) = s[k]
                THEN 20 ELSE 75

\* the extraction returned "Not Found" between blanks, and the confidence
\* response was JSON with a confidence that is not a number
C22_Witness ==
    /\ efs_pc = "returned"
    /\ efs_value = S_Not_Found
    /\ efs_calls[2].ended = "object"
    /\ efs_calls[2].confidence = NotANumber
    /\ efs_ret.confidence = 20

\* C23: in compare_chunking_algorithms every benchmark run whose extraction
\* failed, in retrieval or in the generation call, is recorded with value
\* "ERROR" and confidence 0 and, unless it is the last run, is followed by a
\* sleep of 2 x delay_seconds before the next run.
C23_FailedRunDoublesDelay ==
    LET steps == BmSteps IN
    \A p \in 1..Len(steps) :
        (steps[p].ev = "call" /\ steps[p].msg \in {"retrieval", "generation"}) =>
            LET rec == bm_results[steps[p].n + 1] IN
            /\ rec.confidence = 0
            /\ IF rec.error THEN rec.value = "ERROR" ELSE rec.value = <<"E", "R", "R", "O", "R">>
            /\ steps[p].n < num_runs - 1 =>
                  /\ p < Len(steps)
                  /\ steps[p + 1] = Ev("sleep", 2 * bm_delay, "")

\* C25: token-mode sliding-window chunking terminates for every size >= 1
\* and every overlap >= 0, overlap >= size included: the window start
\* advances by max(size - overlap, 1) >= 1 tokens on every iteration, so at
\* most n windows are produced for n tokens, and the call returns.
C25_SlidingTerminates ==
    /\ [](size >= 1 => Len(ch_chunks) <= Len(ch_text.toks))
    /\ [][ (size >= 1 /\ ch_pc = "loop" /\ ch_i' # ch_i) =>
              /\ ch_i' = ch_i + Max(size - overlap, 1)
              /\ ch_i' >= ch_i + 1 ]_vars
    /\ <>(ch_pc = "done")

\* five tokens, size 2, overlap 3: five windows, one starting at every token
C25_Witness ==
    /\ ch_pc = "done"
    /\ Len(tokens) = 5 /\ size = 2 /\ overlap = 3
    /\ Len(ch_chunks) = 5

\* C26: recursive token-mode chunking terminates for every non-blank text,
\* every size >= 1 and every overlap >= 0, overlap >= size included: the
\* window start strictly increases on every iteration of its loop.
C26_RecursiveStartIncreases ==
    [][ (rc_pc = "loop" /\ rc_chunks' # rc_chunks) => rc_i' > rc_i ]_vars

\* C28: in token mode with 0 <= overlap < size, chunk_text_recursive and
\* chunk_text_sliding_window return the same chunk sequence for every text
\* (and the recursive loop ends within the iterations that are followed).
C28_SameChunksInTokenMode ==
    overlap < size =>
        /\ (ch_pc = "done" /\ rc_pc = "done") => rc_chunks = ch_chunks
        /\ rc_pc = "loop" => (Len(rc_chunks) < MaxWindows \/ rc_i >= Len(rc_tokens))

\* both chunkers made the same three windows of five tokens, size 3, overlap 1
C28_Witness ==
    /\ ch_pc = "done" /\ rc_pc = "done"
    /\ Len(ch_text.toks) = 5 /\ size = 3 /\ overlap = 1
    /\ Len(rc_chunks) = 3
    /\ rc_chunks = ch_chunks

\* the splitting C24 describes: a piece is split by the next separator only
\* when it has more than sz words, a piece of at most sz words is kept
\* whole, and the characters are taken apart only when no other separator
\* is left
RECURSIVE SplitByWords(_, _, _)
RECURSIVE SplitEachByWords(_, _, _)
SplitByWords(text, seps, sz) ==
    IF seps = <<>> THEN <<text>>
    ELSE IF Head(seps) = <<>> THEN [k \in 1..Len(text) |-> <<text[k]>>]
    ELSE SplitEachByWords(SplitOn(text, Head(seps)), seps, sz)
SplitEachByWords(splits, seps, sz) ==
    IF splits = <<>> THEN <<>>
    ELSE (IF WordCount(Head(splits)) > sz THEN SplitByWords(Head(splits), Tail(seps), sz)
          ELSE IF Strip(Head(splits)) # <<>> THEN <<Head(splits)>>
          ELSE <<>>)
         \o SplitEachByWords(Tail(splits), seps, sz)

\* C24: in recursive paragraph mode the size limit is measured in words at
\* every step: a unit is merged while words(buffer) + words(unit) <= size; a
\* unit or piece is split by the next separator only when it has more than
\* size words, a piece of at most size words is emitted whole, and the
\* characters are taken apart only for a piece that still has more than
\* size words when the other separators are exhausted.
C24_SizeInWords ==
    [][ (rp_pc = "loop" /\ rp_k' = rp_k + 1) =>
          LET unit == initial_chunks[rp_k + 1]
              flushed == IF current_chunk # <<>> THEN Append(final_chunks, current_chunk)
                         ELSE final_chunks
          IN IF WordCount(current_chunk) + WordCount(unit) <= rp_size
             THEN /\ final_chunks' = final_chunks
                  /\ WordCount(current_chunk') = WordCount(current_chunk) + WordCount(unit)
             ELSE IF WordCount(unit) <= rp_size
             THEN final_chunks' = flushed /\ current_chunk' = unit
             ELSE final_chunks' = flushed \o NonBlank(SplitByWords(unit, Separators, rp_size))
      ]_vars

\* the characters of str that are not whitespace, in order
NonWhitespace(str) == SelectSeq(str, LAMBDA c : c \notin Whitespace)
RECURSIVE Concat(_)
Concat(strs) == IF strs = <<>> THEN <<>> ELSE Head(strs) \o Concat(Tail(strs))

\* C29: recursive paragraph-mode chunking drops and reorders no content: the
\* non-whitespace characters of the chunks, concatenated in chunk order, are
\* the non-whitespace characters of the text, in order.
C29_NoContentDropped ==
    rp_pc = "done" => NonWhitespace(Concat(final_chunks)) = NonWhitespace(rp_text)

\* C27: after a build request for the text T with the chunking configuration
\* C has completed, the chunks and the index the session holds are those of
\* chunking T with C, also when an index of T was saved earlier under
\* another configuration.
C27_SessionHoldsRequestedChunking ==
    app_req.ended \in {"loaded", "built"} =>
        /\ session.pdf_text = app_req.text
        /\ session.chunks = ChunkText(app_req.text, app_req.config)
        /\ ntotal(session.index) = Len(ChunkText(app_req.text, app_req.config))

\* C30: run_benchmark_test appends exactly one record per iteration, also
\* when the progress callback or the sleep raises after a successful
\* extraction: no run index appears twice in the result, and a run whose
\* extraction succeeded is never recorded as "ERROR" as well.
C30_OneRecordPerIteration ==
    /\ \A j, k \in 1..Len(bm_results) : j # k => bm_results[j].run # bm_results[k].run
    /\ \A p \in 1..Len(bm_log) :
          (bm_log[p].ev = "call" /\ bm_log[p].msg = "ok") =>
              \A k \in 1..Len(bm_results) :
                  bm_results[k].run = bm_log[p].n + 1 => ~bm_results[k].error

====
